---- MODULE Spec2Model ----
(***************************************************************************)
(* Model of the job orchestration code of ugc-avatar-platform:             *)
(*   - the poll loops of the RunPod and Replicate backends                 *)
(*     (backend/services/gpu_worker.py, replicate_worker.py),              *)
(*   - the Vast.ai provisioning flow (backend/services/vastai_worker.py),  *)
(*   - the Celery task and its failure hook (worker/tasks.py),             *)
(*   - the validation of a generation request (backend/schemas/video.py),  *)
(*   - the RunPod payload against the handler's input validation           *)
(*     (deployment/runpod/handler.py).                                     *)
(* Each part has its own specification (SpecPoll, SpecVast, Spec,          *)
(* SpecRequest, SpecPayload, ...); the variables of the other parts stay   *)
(* at their initial values.                                                *)
(***************************************************************************)
EXTENDS Integers, Sequences, FiniteSets, TLC

VARIABLES
    \* ---- backend poll loops (gpu_worker.py, replicate_worker.py) ----
    backend,        \* which service object runs: "runpod" | "replicate" | "-"
    credentials,    \* the credential attributes read in __init__
    ppc,            \* position in generate_video: "idle" | "call" | "poll" | "done"
    clock,          \* time.time(), in seconds; advances at time.sleep
    start_time,     \* start_time of _poll_job / _poll_prediction
    outcome,        \* what generate_video returned or raised
    nOutcomes,      \* number of returns/raises of the invocation
    nPosts,         \* requests.post calls issued (create remote work)
    nChecks,        \* status GETs issued by the poll loop
    nFetches,       \* GETs of the output URL (replicate), counted up to FetchCap
    inProgPrefix,   \* k when the k status checks so far all answered IN_PROGRESS, else -1
    onlyNetErr,     \* TRUE while every status check so far raised a network-level error
    sawUnusable,    \* a "succeeded" answer whose output gave no usable URL was received
    onlyUnknown,    \* TRUE while every status check so far answered an unrecognised status
    sawFailure,     \* a status answer by which the provider reports the job failed was received
    finalResp,      \* the status answer on which the loop ended (NoResp otherwise)
    postResp,       \* the answer to the create request (NoResp before it)
    \* ---- Vast.ai provisioning (vastai_worker.py generate_video) ----
    gpu_idx,        \* index of the GPU type the search loop tries next (1..3)
    offers,         \* the local offers: prices (dph_total), in list order
    listed,         \* the offers as the API answered the search that assigned offers
    rented,         \* dph_total of the offer create_instance was called with (0: none)
    instance_id,    \* the local instance_id: "none" or an id
    ssh_host,       \* the locals ssh_host / ssh_port of the readiness wait
    ssh_port,
    pending_exc,    \* the exception travelling to the finally clause
    remote_instances, \* ids of the instances that exist at Vast.ai
    nCreates,       \* create_instance calls
    destroyed,      \* the arguments of the destroy_instance calls, in order
    nApiRequests,   \* _api_request calls
    \* ---- Celery task and failure hook (worker/tasks.py) ----
    db,             \* the videos table: the committed row of each video id
    now,            \* datetime.utcnow()
    nRuns,          \* deliveries of generate_video_task so far
    tpc,            \* per worker: position in generate_video_task
    video_id,       \* per worker: the task's argument
    video,          \* per worker: the session's Video object (attributes as loaded)
    expired,        \* per worker: the object's attributes are expired (after commit/rollback)
    cause,          \* per worker: the exception caught by "except Exception as e"
    exc,            \* per worker: the exception the task raised to the queue
    handled,        \* per worker: what the except clause's commit did
    work_dir,       \* per worker: the work directory of its latest run
    \* ---- operations called from outside a run ----
    hook_args,      \* (video_id, error) of direct on_failure invocations
    hook_results,   \* "returned" / "raised" of each of them, in order
    hook_before,    \* the record before the last of them
    health,         \* what check_health returned ("-" when not called)
    nHealthGets,    \* GETs issued by check_health
    cancel_requested, \* the caller asked for the running poll to be cancelled
    \* ---- request validation (schemas/video.py) ----
    request,        \* the fields of the body handed to VideoGenerationRequest
    validation,     \* "-" before validation, then "accepted" / "rejected"
    \* ---- RunPod payload (gpu_worker.py) and handler (runpod/handler.py) ----
    gen_args,       \* the arguments of GPUWorkerService.generate_video
    payload,        \* the JSON body posted to {base_url}/run
    handler_result, \* what the handler returned for the job
    pod,            \* the worker pod: network volume, disk, inference run
    \* ---- storage (services/storage.py) and text to speech (services/tts.py) ----
    storage_cfg,    \* the settings get_storage_service() reads
    up_key,         \* the key a file is uploaded under
    up_url,         \* what upload_file returned for it
    ref_key,        \* what the task's key extraction made of that URL
    storage_dir,    \* the files and directories of LocalStorageService
    last_op,        \* the last call on LocalStorageService and its result
    uploaded,       \* per key: the data of its last upload, "none" once deleted
    tts_call,       \* provider, configuration and provider outcome of a call
    tts_result      \* what generate_audio gave its caller

pollVars == <<backend, credentials, ppc, clock, start_time, outcome, nOutcomes,
              nPosts, nChecks, nFetches, inProgPrefix, onlyNetErr, sawUnusable,
              onlyUnknown, sawFailure, finalResp, postResp>>

vastVars == <<gpu_idx, offers, listed, rented, instance_id, ssh_host, ssh_port, pending_exc,
              remote_instances, nCreates, destroyed, nApiRequests>>

taskVars ==
    <<db, now, nRuns, tpc, video_id, video, expired, cause, exc, handled, work_dir>>

callerVars == <<hook_args, hook_results, hook_before, health, nHealthGets,
                cancel_requested>>

storeVars ==
    <<storage_cfg, up_key, up_url, ref_key, storage_dir, last_op, uploaded, tts_call,
      tts_result>>
apiVars == <<request, validation, gen_args, payload, handler_result, pod, storeVars>>

vars == <<pollVars, vastVars, taskVars, callerVars, apiVars>>

\* ------------------------------------------------------------------------
\* Program constants
\* ------------------------------------------------------------------------
GPU_timeout == 300
Replicate_timeout == 300
PollSleep == 2
ErrorSleep == 5

StartupTimeout == 300
StartupSleep == 10

\* Bounds of the model
FetchCap == 2
MaxOffers == 2
MaxPrice == 2
MaxRuns == 2
MaxTime == 1
MaxHookCalls == 2

\* ------------------------------------------------------------------------
\* Values
\* ------------------------------------------------------------------------
CredValues == {"none", "empty", "set"}      \* None, "", a non-empty string

\* Python truthiness of a credential string
Truthy(c) == c = "set"

NoOutcome == [kind |-> "none", msg |-> "-"]
Returned(m) == [kind |-> "Success", msg |-> m]
Raised(k, m) == [kind |-> k, msg |-> m]

\* A JSON value of an "output" field.  type is the JSON type ("absent" when the
\* key is missing).  For a dict, status/video/alt are the values of its keys
\* "status", "video" and "output" ("none" when the key is missing or null);
\* for a string, video is the string itself; for a list, video is its first
\* element (type "list_empty" for []).
Json(t, s, v, a) == [type |-> t, status |-> s, video |-> v, alt |-> a, error |-> "-"]
NoOutput == Json("-", "-", "-", "-")

Resp(k, s, o, f) == [kind |-> k, status |-> s, output |-> o, fetch |-> f, error |-> "-"]
NoResp == Resp("none", "-", NoOutput, "-")

\* The value of the "error" key of a JSON object: "absent" (no such key),
\* "null", or the error text of the remote side
RemoteErrors == {"absent", "null", "CUDA out of memory"}
WithError(x, e) == [x EXCEPT !.error = e]

\* requests raising a RequestException: a connection error or timeout
\* ("net_error"), or raise_for_status() on a 4xx/5xx answer ("http_error").
RequestErrors == {Resp("net_error", "-", NoOutput, "-"), Resp("http_error", "-", NoOutput, "-")}

IsRequestException(r) == r.kind \in {"net_error", "http_error"}

\* Answers of POST {base_url}/run and POST /predictions: status holds the "id"
\* of the answer ("none": no id, "empty": "", or the id the provider gave
\* the job / the prediction).
JobIds == IF backend = "runpod" THEN {"job-1"} ELSE {"pred-1"}
PostAnswers ==
    RequestErrors \cup {Resp("json", i, NoOutput, "-") : i \in {"none", "empty"} \cup JobIds}

\* Answers of GET {base_url}/status/{job_id} (RunPod).
RunpodOutputs ==
    {Json(t, "-", "-", "-") : t \in {"absent", "null", "string", "list"}}
    \cup {Json("dict", s, v, "-") : s \in {"none", "success"},
                                    v \in {"none", "empty", "b64"}}
    \cup {WithError(Json("dict", "failed", v, "-"), e) :
            v \in {"none", "empty", "b64"}, e \in RemoteErrors}
RunpodStatusAnswers ==
    RequestErrors
    \cup {Resp("json", "COMPLETED", o, "-") : o \in RunpodOutputs}
    \cup {WithError(Resp("json", "FAILED", NoOutput, "-"), e) : e \in RemoteErrors}
    \cup {Resp("json", s, NoOutput, "-") :
            s \in {"IN_QUEUE", "IN_PROGRESS", "CANCELLED", "none"}}

\* Answers of GET /predictions/{id} (Replicate); fetch is the outcome of the
\* GET of the output URL, when the code gets that far with a URL.
ReplicateOutputs ==
    {Json(t, "-", "-", "-") : t \in {"absent", "null", "list_empty", "number"}}
    \cup {Json("string", "-", v, "-") : v \in {"empty", "url"}}
    \cup {Json("list", "-", v, "-") : v \in {"none", "url"}}
    \cup {Json("dict", "-", v, a) : v \in {"none", "url"}, a \in {"none", "url"}}
FetchOutcomes == {"ok", "http_error", "net_error"}

\* ------------------------------------------------------------------------
\* Pure parts of the services
\* ------------------------------------------------------------------------
\* Variant: is_configured looks at the API key only
GPU_is_configured_KeyOnly(c) == Truthy(c.RUNPOD_API_KEY)

\* gpu_worker.py: is_configured
GPU_is_configured(c) == Truthy(c.RUNPOD_API_KEY) /\ Truthy(c.RUNPOD_ENDPOINT_ID)

\* replicate_worker.py: is_configured
Replicate_is_configured(c) == Truthy(c.REPLICATE_API_TOKEN)

\* What one pass of a loop body does: return a result, raise, or sleep d
\* seconds and go round again.
StepReturn(m) == [op |-> "return", out |-> Returned(m), sleep |-> 0]
StepRaise(k, m) == [op |-> "raise", out |-> Raised(k, m), sleep |-> 0]
StepSleep(d) == [op |-> "sleep", out |-> NoOutcome, sleep |-> d]

\* str(d.get("error", default)) / str(d.get("error")) inside an f-string
ErrorText(e, default) ==
    CASE e = "absent" -> default
      [] e = "null" -> "None"
      [] OTHER -> e

\* raise TimeoutError(f"Job {job_id} timed out after {self.timeout}s")
GPU_poll_timeout(job_id) ==
    Raised("TimeoutError", "Job " \o job_id \o " timed out after 300s")

\* raise TimeoutError(f"Prediction {prediction_id} timed out after ...")
Replicate_poll_timeout(prediction_id) ==
    Raised("TimeoutError", "Prediction " \o prediction_id \o " timed out after 300s")

\* status_data.get("output", {}): the default only replaces a missing key
GPU_output(o) == IF o.type = "absent" THEN Json("dict", "none", "none", "-") ELSE o

\* Variant: the poll interval as long as the error backoff
PollInterval_Slow == ErrorSleep

\* gpu_worker.py _poll_job: time.sleep(2) after IN_QUEUE / IN_PROGRESS
GPU_poll_interval == PollSleep

\* Variant: the except clause sleeps the poll interval
GPU_poll_except_NoBackoff(r) == StepSleep(PollSleep)

\* Variant: the except clause logs and re-raises
GPU_poll_except_Reraise(r) == StepRaise("RequestException", r.kind)

\* gpu_worker.py _poll_job: except RequestException: log, time.sleep(5)
GPU_poll_except(r) == StepSleep(ErrorSleep)

\* Variant: the else branch only logs the warning
GPU_poll_unknown_NoSleep == StepSleep(0)

\* Variant: the else branch gives up on a status it does not know
GPU_poll_unknown_Raise == StepRaise("ValueError", "Unknown status")

\* gpu_worker.py _poll_job: the else branch (unknown status)
GPU_poll_unknown == StepSleep(PollSleep)

\* Variant: a FAILED job is polled again
GPU_job_failed_Retry(r) == StepSleep(PollSleep)

\* gpu_worker.py _poll_job: the FAILED branch
GPU_job_failed(r) ==
    StepRaise("ValueError", "Job failed: " \o ErrorText(r.error, "Unknown error"))

\* gpu_worker.py _poll_job: the body of the while loop for one answer r
GPU_poll_body(r) ==
    IF IsRequestException(r) THEN GPU_poll_except(r)
    ELSE IF r.status = "COMPLETED" THEN
        LET output == GPU_output(r.output) IN
        IF output.type # "dict"
            THEN StepRaise("AttributeError", "no attribute get")
        ELSE IF output.status = "failed"
            THEN StepRaise("ValueError",
                           "Generation failed: " \o ErrorText(output.error, "None"))
        ELSE IF output.video = "b64"
            THEN StepReturn("video bytes")
        ELSE StepRaise("ValueError", "No video in response")
    ELSE IF r.status = "FAILED" THEN GPU_job_failed(r)
    ELSE IF r.status \in {"IN_QUEUE", "IN_PROGRESS"} THEN StepSleep(GPU_poll_interval)
    ELSE GPU_poll_unknown

\* replicate_worker.py _poll_prediction: video_url chosen from the output
\* ("raise" when the else branch raises ValueError)
Replicate_video_url(o) ==
    IF o.type = "string" THEN o.video
    ELSE IF o.type = "dict" THEN (IF o.video = "url" THEN o.video ELSE o.alt)
    ELSE IF o.type = "list" THEN o.video
    ELSE "raise"

ReplicateStatusAnswers ==
    RequestErrors
    \cup {Resp("json", "succeeded", o, f) :
            o \in {x \in ReplicateOutputs : Replicate_video_url(x) = "url"},
            f \in FetchOutcomes}
    \cup {Resp("json", "succeeded", o, "-") :
            o \in {x \in ReplicateOutputs : Replicate_video_url(x) # "url"}}
    \cup {WithError(Resp("json", "failed", NoOutput, "-"), e) : e \in RemoteErrors}
    \cup {Resp("json", s, NoOutput, "-") :
            s \in {"starting", "processing", "canceled", "none"}}

\* replicate_worker.py _poll_prediction: the body of the while loop
Replicate_poll_body(r) ==
    IF IsRequestException(r) THEN StepSleep(ErrorSleep)
    ELSE IF r.status = "succeeded" THEN
        LET video_url == Replicate_video_url(r.output) IN
        IF video_url = "raise"
            THEN StepRaise("ValueError", "Unexpected output format")
        ELSE IF video_url # "url"
            \* requests.get("") / requests.get(None): MissingSchema, a
            \* RequestException, caught by the loop's except clause
            THEN StepSleep(ErrorSleep)
        ELSE IF r.fetch = "ok" THEN StepReturn("video bytes")
        ELSE StepSleep(ErrorSleep)
    ELSE IF r.status = "failed"
        THEN StepRaise("ValueError",
                       "Prediction failed: " \o ErrorText(r.error, "Unknown error"))
    ELSE IF r.status \in {"starting", "processing"} THEN StepSleep(PollSleep)
    ELSE StepSleep(PollSleep)

\* TRUE for an answer whose status is none of those _poll_job tests for
GPU_unknown_status(r) ==
    /\ ~IsRequestException(r)
    /\ r.status \notin {"COMPLETED", "FAILED", "IN_QUEUE", "IN_PROGRESS"}

\* TRUE for an answer by which RunPod reports the job failed: status FAILED,
\* or COMPLETED with the handler's output {"status": "failed", "error": ...}
GPU_reports_failure(r) ==
    /\ ~IsRequestException(r)
    /\ \/ r.status = "FAILED"
       \/ /\ r.status = "COMPLETED"
          /\ GPU_output(r.output).type = "dict"
          /\ GPU_output(r.output).status = "failed"

\* The same for the answers of Replicate
Replicate_unknown_status(r) ==
    /\ ~IsRequestException(r)
    /\ r.status \notin {"succeeded", "failed", "starting", "processing"}

Replicate_reports_failure(r) ==
    /\ ~IsRequestException(r)
    /\ r.status = "failed"

\* TRUE when the loop body issues the GET of the output URL for answer r
Replicate_fetches(r) ==
    /\ ~IsRequestException(r)
    /\ r.status = "succeeded"
    /\ Replicate_video_url(r.output) = "url"

\* TRUE for a "succeeded" answer from which no usable URL comes
Replicate_unusable(r) ==
    /\ ~IsRequestException(r)
    /\ r.status = "succeeded"
    /\ Replicate_video_url(r.output) # "url"

\* ------------------------------------------------------------------------
\* Backend poll loops: state machine
\* ------------------------------------------------------------------------
Min(a, b) == IF a < b THEN a ELSE b

NoCredentials ==
    [RUNPOD_API_KEY |-> "none", RUNPOD_ENDPOINT_ID |-> "none",
     REPLICATE_API_TOKEN |-> "none", VASTAI_API_KEY |-> "none"]

\* No service object runs a generate_video call
PollLoopIdle ==
    /\ backend = "-"
    /\ ppc = "idle"
    /\ clock = 0
    /\ start_time = 0
    /\ outcome = NoOutcome
    /\ nOutcomes = 0
    /\ nPosts = 0
    /\ nChecks = 0
    /\ nFetches = 0
    /\ inProgPrefix = 0
    /\ onlyNetErr = TRUE
    /\ sawUnusable = FALSE
    /\ onlyUnknown = TRUE
    /\ sawFailure = FALSE
    /\ finalResp = NoResp
    /\ postResp = NoResp

\* The poll part at rest (the state it keeps in the other specifications)
PollIdle ==
    /\ credentials = NoCredentials
    /\ PollLoopIdle

\* config.py Settings as the worker process may find them: no cloud backend
\* configured, or RunPod and Replicate both configured
TaskSettings ==
    {NoCredentials,
     [NoCredentials EXCEPT !.RUNPOD_API_KEY = "set", !.RUNPOD_ENDPOINT_ID = "set",
                           !.REPLICATE_API_TOKEN = "set"]}

\* ---- worker/tasks.py and app/db/models.py: values ----
VideoIds == {1, 2}
Workers == {"w1", "w2"}

\* models.py VideoStatus
VideoStatus == {"pending", "processing", "completed", "failed", "cancelled"}
TerminalStatus == {"completed", "failed", "cancelled"}

\* NULL in the nullable DateTime / Float columns
Null == -1

\* A row of videos (the columns the task writes); status "absent": no row
Row(st, em, sa, ca, ts, url) ==
    [status |-> st, error_message |-> em, processing_started_at |-> sa,
     processing_completed_at |-> ca, processing_time_seconds |-> ts,
     output_video_url |-> url]
\* The row the API layer inserts: status pending, the other columns NULL
PendingRow == Row("pending", "none", Null, Null, Null, "none")
AbsentRow == Row("absent", "none", Null, Null, Null, "none")

\* The task part at rest
TaskIdle ==
    /\ db = [v \in VideoIds |-> AbsentRow]
    /\ now = 0
    /\ nRuns = 0
    /\ tpc = [w \in Workers |-> "idle"]
    /\ video_id = [w \in Workers |-> 1]
    /\ video = [w \in Workers |-> AbsentRow]
    /\ expired = [w \in Workers |-> FALSE]
    /\ cause = [w \in Workers |-> "none"]
    /\ exc = [w \in Workers |-> "none"]
    /\ handled = [w \in Workers |-> "-"]
    /\ work_dir = [w \in Workers |-> "none"]

\* The Vast.ai part at rest
VastIdle ==
    /\ gpu_idx = 1
    /\ offers = <<>>
    /\ listed = <<>>
    /\ rented = 0
    /\ instance_id = "none"
    /\ ssh_host = "none"
    /\ ssh_port = "none"
    /\ pending_exc = NoOutcome
    /\ remote_instances = {}
    /\ nCreates = 0
    /\ destroyed = <<>>
    /\ nApiRequests = 0

\* No operation was called from outside a run
CallerIdle ==
    /\ hook_args = [v |-> 1, e |-> "none"]
    /\ hook_results = <<>>
    /\ hook_before = AbsentRow
    /\ health = "-"
    /\ nHealthGets = 0
    /\ cancel_requested = FALSE

\* ---- schemas/video.py: VideoGenerationRequest ----
\* The fields of VideoGenerationRequest in the order of their declaration,
\* which is the order pydantic validates them in.  (voice_id, emotion, style,
\* tier, resolution and seed are left to their defaults.)
RequestFields ==
    <<"reference_image", "audio_file", "text_input", "prompt",
      "num_inference_steps", "num_frames">>

\* A request body: a string field is "absent" (key not in the body) or holds
\* a "value"; an integer field is the set of the integers supplied for it
\* ({} when the key is not in the body).
Requests ==
    [reference_image : {"absent", "value"},
     audio_file : {"absent", "value"},
     text_input : {"absent", "value"},
     prompt : {"absent", "value"},
     num_inference_steps : {{}, {9}, {10}, {100}, {101}},
     num_frames : {{}, {0}, {1}, {257}, {258}}]

NoRequest ==
    [reference_image |-> "absent", audio_file |-> "absent", text_input |-> "absent",
     prompt |-> "absent", num_inference_steps |-> {}, num_frames |-> {}]

\* ---- gpu_worker.py payload and runpod/handler.py: values ----
\* Arguments of GPUWorkerService.generate_video
GenArgs ==
    [reference_image : {"", "img"},
     prompt : {"", "text"},
     num_inference_steps : {10, 50},
     num_frames : {1, 129},
     resolution : {"540p", "720p"},
     aspect_ratio : {"16:9", "9:16"},
     seed : {0, 42}]

NoArgs ==
    [reference_image |-> "-", prompt |-> "-", num_inference_steps |-> 0,
     num_frames |-> 0, resolution |-> "-", aspect_ratio |-> "-", seed |-> 0]

\* No JSON body
NoPayload == [k \in {} |-> ""]

\* The handler has not answered
NoHandlerResult == [status |-> "-", error |-> "none"]

\* What the handler finds on its pod: the models of MODEL_PATHS, the
\* OmniAvatar checkout and its scripts/inference.py on the network volume,
\* room on the disk of the temp directory, how the inference subprocess
\* ends, and the file it leaves in the output directory
Pods ==
    [models : BOOLEAN, repo : BOOLEAN, script : BOOLEAN, disk : {"ok", "full"},
     inference : {"exit 0", "exit 1", "TimeoutExpired", "OSError"},
     output : {"none", "out.mp4", "out.avi"}]

\* A pod set up as the deployment describes, whose inference succeeds
ReadyPod ==
    [models |-> TRUE, repo |-> TRUE, script |-> TRUE, disk |-> "ok",
     inference |-> "exit 0", output |-> "out.mp4"]

\* ---- services/storage.py and services/tts.py: values ----
\* Texts are sequences of characters.  In a URL "e" stands for the public
\* endpoint, "h" for "https://", "." for ".s3.amazonaws.com" and "l" for
\* "local_storage"; bucket names and keys are made of the other characters.
KeyChars == {"b", "k", "/"}
MaxKeyLen == 3
StorageKeys == UNION {[1..n -> KeyChars] : n \in 1..MaxKeyLen}

\* settings.S3_BUCKET
S3_BUCKET == <<"b">>

\* AWS_ACCESS_KEY_ID and AWS_SECRET_ACCESS_KEY both set or not, and
\* S3_PUBLIC_ENDPOINT or S3_ENDPOINT
StorageSettings == [aws : BOOLEAN, public_endpoint : {<<>>, <<"e">>}]

\* The keys of the local round trip, and pathlib's storage_dir / key for
\* them: the components of the path below storage_dir
LocalKeys == {"a", "a/b", "a//b", "c"}
LocalPaths == {<<"a">>, <<"a", "b">>, <<"c">>}
PathOf(key) ==
    CASE key = "a" -> <<"a">>
      [] key = "a/b" -> <<"a", "b">>
      [] key = "a//b" -> <<"a", "b">>
      [] key = "c" -> <<"c">>
FileData == {"d1", "d2"}
NoOp == [op |-> "-", key |-> "-", data |-> "-", result |-> "-"]
EmptyDir == [p \in LocalPaths |-> "absent"]

\* A call of generate_audio: the provider named, the two API keys of the
\* settings, and what the provider's API does when it is called
TTSProviders == {"openai", "elevenlabs", "azure"}
TTSCalls ==
    [provider : TTSProviders, OPENAI_API_KEY : CredValues,
     ELEVENLABS_API_KEY : CredValues, api : {"content", "APIError", "HTTPError"}]
NoTTSCall ==
    [provider |-> "-", OPENAI_API_KEY |-> "none", ELEVENLABS_API_KEY |-> "none",
     api |-> "-"]

\* Nothing is stored and no audio is asked for
StoreIdle ==
    /\ storage_cfg = [aws |-> FALSE, public_endpoint |-> <<>>]
    /\ up_key = <<>>
    /\ up_url = <<>>
    /\ ref_key = [raised |-> "-", key |-> <<>>]
    /\ storage_dir = EmptyDir
    /\ last_op = NoOp
    /\ uploaded = [k \in LocalKeys |-> "none"]
    /\ tts_call = NoTTSCall
    /\ tts_result = "-"

\* No request is being validated and no payload is being built
ApiIdle ==
    /\ request = NoRequest
    /\ validation = "-"
    /\ gen_args = NoArgs
    /\ payload = NoPayload
    /\ handler_result = NoHandlerResult
    /\ pod = ReadyPod
    /\ StoreIdle

\* GPUWorkerService() / ReplicateWorkerService() constructed from the settings,
\* and generate_video about to be called on it.
InitPoll ==
    /\ backend \in {"runpod", "replicate"}
    /\ credentials \in
         {[NoCredentials EXCEPT !.RUNPOD_API_KEY = k, !.RUNPOD_ENDPOINT_ID = e,
                                !.REPLICATE_API_TOKEN = t] :
            k \in CredValues, e \in CredValues, t \in CredValues}
    /\ backend = "runpod" => credentials.REPLICATE_API_TOKEN = "none"
    /\ backend = "replicate" =>
          credentials.RUNPOD_API_KEY = "none" /\ credentials.RUNPOD_ENDPOINT_ID = "none"
    /\ ppc = "call"
    /\ clock = 0
    /\ start_time = 0
    /\ outcome = NoOutcome
    /\ nOutcomes = 0
    /\ nPosts = 0
    /\ nChecks = 0
    /\ nFetches = 0
    /\ inProgPrefix = 0
    /\ onlyNetErr = TRUE
    /\ sawUnusable = FALSE
    /\ onlyUnknown = TRUE
    /\ sawFailure = FALSE
    /\ finalResp = NoResp
    /\ postResp = NoResp
    /\ VastIdle
    /\ ApiIdle
    /\ TaskIdle
    /\ CallerIdle

\* generate_video ends: the value returned or the exception raised is o
Finish(o) ==
    /\ ppc' = "done"
    /\ outcome' = o
    /\ nOutcomes' = nOutcomes + 1

\* Variant: a create request that raised is sent a second time
PostsSent_Resend(a) == IF IsRequestException(a) THEN 2 ELSE 1

\* requests.post calls made for one create answer: the call sits in no loop
\* and the except clause re-raises
PostsSent(a) == 1

\* Variant: only a missing id is refused ("if job_id is None")
HasJobId_NotNone(a) == a.status # "none"

\* "if not job_id" / "if not prediction_id": the id is a non-empty string
HasJobId(a) == a.status \notin {"none", "empty"}

\* The submission part shared by both generate_video methods: the
\* is_configured test, one POST, the id test, then the poll loop starts.
SubmitJob(configured) ==
    IF ~configured
    THEN /\ Finish(Raised("ValueError", "not configured"))
         /\ UNCHANGED <<nPosts, start_time, postResp>>
    ELSE \E a \in PostAnswers :
           /\ nPosts' = nPosts + PostsSent(a)
           /\ postResp' = a
           /\ IF IsRequestException(a)
              THEN \* except RequestException: logged and re-raised
                   /\ Finish(Raised("RequestException", a.kind))
                   /\ UNCHANGED start_time
              ELSE IF ~HasJobId(a)
              THEN /\ Finish(Raised("ValueError", "No job ID returned"))
                   /\ UNCHANGED start_time
              ELSE /\ ppc' = "poll"
                   /\ start_time' = clock
                   /\ UNCHANGED <<outcome, nOutcomes>>

\* gpu_worker.py generate_video, up to the call of _poll_job
GPU_generate_video ==
    /\ backend = "runpod"
    /\ ppc = "call"
    /\ SubmitJob(GPU_is_configured(credentials))
    /\ UNCHANGED <<backend, credentials, clock, nChecks, nFetches, inProgPrefix,
                   onlyNetErr, sawUnusable, onlyUnknown, sawFailure, finalResp>>
    /\ UNCHANGED <<vastVars, taskVars, callerVars, apiVars>>

\* replicate_worker.py generate_video, up to the call of _poll_prediction
Replicate_generate_video ==
    /\ backend = "replicate"
    /\ ppc = "call"
    /\ SubmitJob(Replicate_is_configured(credentials))
    /\ UNCHANGED <<backend, credentials, clock, nChecks, nFetches, inProgPrefix,
                   onlyNetErr, sawUnusable, onlyUnknown, sawFailure, finalResp>>
    /\ UNCHANGED <<vastVars, taskVars, callerVars, apiVars>>

\* One pass of a poll loop whose while condition holds: the status GET is
\* answered by r and the loop body does step.
PollPass(r, step, inProgress) ==
    /\ nChecks' = nChecks + 1
    /\ inProgPrefix' = IF inProgPrefix >= 0 /\ inProgress THEN inProgPrefix + 1
                       ELSE IF step.op = "sleep" THEN -1 ELSE inProgPrefix
    /\ onlyNetErr' = (onlyNetErr /\ r.kind = "net_error")
    /\ IF step.op = "sleep"
       THEN /\ clock' = clock + step.sleep
            /\ UNCHANGED <<ppc, outcome, nOutcomes, finalResp>>
       ELSE /\ Finish(step.out)
            /\ finalResp' = r
            /\ UNCHANGED clock

\* Variant: the loop goes round while the timeout has not been passed
LoopCondition_Inclusive(timeout) == clock - start_time <= timeout

\* The while condition: time.time() - start_time < timeout
LoopCondition(timeout) == clock - start_time < timeout

\* gpu_worker.py _poll_job: one evaluation of the while condition and, when
\* it holds, one pass of the body; TimeoutError when it does not.
GPU_poll_job ==
    /\ backend = "runpod"
    /\ ppc = "poll"
    /\ IF LoopCondition(GPU_timeout)
       THEN \E r \in RunpodStatusAnswers :
              /\ PollPass(r, GPU_poll_body(r), r.status = "IN_PROGRESS")
              /\ onlyUnknown' = (onlyUnknown /\ GPU_unknown_status(r))
              /\ sawFailure' = (sawFailure \/ GPU_reports_failure(r))
       ELSE /\ Finish(GPU_poll_timeout(postResp.status))
            /\ UNCHANGED <<clock, nChecks, inProgPrefix, onlyNetErr, finalResp,
                           onlyUnknown, sawFailure>>
    /\ UNCHANGED <<backend, credentials, start_time, nPosts, postResp, nFetches,
                   sawUnusable>>
    /\ UNCHANGED <<vastVars, taskVars, callerVars, apiVars>>

\* replicate_worker.py _poll_prediction: the same for Replicate
Replicate_poll_prediction ==
    /\ backend = "replicate"
    /\ ppc = "poll"
    /\ IF LoopCondition(Replicate_timeout)
       THEN \E r \in ReplicateStatusAnswers :
              /\ PollPass(r, Replicate_poll_body(r), r.status = "processing")
              /\ nFetches' = IF Replicate_fetches(r)
                             THEN Min(nFetches + 1, FetchCap) ELSE nFetches
              /\ sawUnusable' = (sawUnusable \/ Replicate_unusable(r))
              /\ onlyUnknown' = (onlyUnknown /\ Replicate_unknown_status(r))
              /\ sawFailure' = (sawFailure \/ Replicate_reports_failure(r))
       ELSE /\ Finish(Replicate_poll_timeout(postResp.status))
            /\ UNCHANGED <<clock, nChecks, inProgPrefix, onlyNetErr, finalResp,
                           nFetches, sawUnusable, onlyUnknown, sawFailure>>
    /\ UNCHANGED <<backend, credentials, start_time, nPosts, postResp>>
    /\ UNCHANGED <<vastVars, taskVars, callerVars, apiVars>>

NextPoll ==
    \/ GPU_generate_video
    \/ Replicate_generate_video
    \/ GPU_poll_job
    \/ Replicate_poll_prediction

SpecPoll == InitPoll /\ [][NextPoll]_vars

\* The worker thread that called generate_video keeps running it
FairSpecPoll == SpecPoll /\ WF_vars(NextPoll)

\* The caller of generate_video asks for the running poll to be cancelled
\* (neither loop takes or reads such a signal)
request_cancel ==
    /\ ppc = "poll"
    /\ ~cancel_requested
    /\ cancel_requested' = TRUE
    /\ UNCHANGED <<hook_args, hook_results, hook_before, health, nHealthGets>>
    /\ UNCHANGED apiVars
    /\ UNCHANGED <<pollVars, vastVars, taskVars>>

NextCancel == NextPoll \/ request_cancel

SpecCancel == InitPoll /\ [][NextCancel]_vars

\* ------------------------------------------------------------------------
\* Claims about the poll loops
\* ------------------------------------------------------------------------
TimeoutOf(b) == IF b = "runpod" THEN GPU_timeout ELSE Replicate_timeout
Elapsed == clock - start_time
FailureKinds == {"ValueError", "RequestException", "AttributeError"}

\* C2: every invocation of generate_video ends, with exactly one outcome: a
\* success result, a failure exception or the timeout exception.  While it
\* runs no outcome exists; each step either ends it or advances the clock,
\* and the clock never passes the timeout by more than one error sleep.
C2_ExactlyOneOutcome ==
    /\ [](/\ nOutcomes <= 1
          /\ (ppc = "done") <=> (nOutcomes = 1)
          /\ (nOutcomes = 0) <=> (outcome = NoOutcome)
          /\ nOutcomes = 1 =>
                outcome.kind \in {"Success", "TimeoutError"} \cup FailureKinds
          /\ ppc = "poll" => Elapsed < TimeoutOf(backend) + ErrorSleep)
    /\ [][ppc = "poll" => (ppc' = "done" \/ clock' > clock)]_vars
    /\ <>(ppc = "done")

C2_Witness ==
    /\ ppc = "done"
    /\ nChecks > 2
    /\ outcome.kind = "TimeoutError"

\* C3: RunPod loop, IN_PROGRESS on the first N checks and COMPLETED with a
\* video on the next, N * 2 s < timeout: the loop is still inside its budget
\* after the N sleeps, makes N+1 checks and returns the success result.
C3_InProgressThenCompleted ==
    backend = "runpod" /\ inProgPrefix >= 0 =>
        /\ (ppc = "poll" /\ inProgPrefix * PollSleep < GPU_timeout)
              => LoopCondition(GPU_timeout)
        /\ (ppc = "done" /\ GPU_poll_body(finalResp).op = "return")
              => /\ outcome = Returned("video bytes")
                 /\ nChecks = inProgPrefix + 1
                 /\ Elapsed = inProgPrefix * PollSleep
                 /\ Elapsed < GPU_timeout
        /\ (ppc = "done" /\ outcome.kind = "TimeoutError")
              => inProgPrefix * PollSleep >= GPU_timeout

C3_Witness ==
    /\ backend = "runpod"
    /\ ppc = "done"
    /\ inProgPrefix = 149
    /\ nChecks = 150
    /\ outcome.kind = "Success"

\* C4: when every status check raises a network-level error the loop goes on
\* until the timeout has elapsed and then raises TimeoutError; no exception
\* of the status GET reaches the caller.
C4_NetworkErrorsEndInTimeout ==
    /\ (ppc = "done" /\ nChecks > 0 /\ onlyNetErr)
          => /\ outcome.kind = "TimeoutError"
             /\ Elapsed >= TimeoutOf(backend)
    /\ (ppc = "poll" /\ onlyNetErr) => Elapsed = nChecks * ErrorSleep
    /\ nChecks > 0 => outcome.kind # "RequestException"

C4_Witness ==
    /\ ppc = "done"
    /\ onlyNetErr
    /\ nChecks = 60
    /\ outcome.kind = "TimeoutError"

\* An output of a COMPLETED answer that carries no video and no failure
\* report: missing, null, not an object, {} or an object without a video
MalformedOutput(o) ==
    \/ o.type \in {"absent", "null", "string", "list"}
    \/ o.type = "dict" /\ o.status # "failed" /\ o.video # "b64"

\* C7: a COMPLETED answer with a malformed output ends generate_video with
\* the one malformed-output failure (ValueError "No video in response").
C7_MalformedOutputIsOneFailure ==
    (backend = "runpod" /\ ppc = "done" /\ finalResp.status = "COMPLETED"
        /\ MalformedOutput(finalResp.output))
    => outcome = Raised("ValueError", "No video in response")

\* C8: a succeeded answer without a usable URL ends the Replicate poll at
\* once with the malformed-output failure.
C8_UnusableOutputEndsPoll ==
    sawUnusable =>
        /\ ppc = "done"
        /\ outcome = Raised("ValueError", "Unexpected output format")

\* C9: at most one GET of the output URL is made in a run (and exactly one
\* when the run ended on an answer whose output is a URL).
C9_OneFetchPerRun ==
    /\ nFetches <= 1
    /\ (ppc = "done" /\ Replicate_fetches(finalResp)) => nFetches = 1

\* ------------------------------------------------------------------------
\* Vast.ai provisioning: vastai_worker.py
\* ------------------------------------------------------------------------
\* vastai_worker.py: is_configured
VastAI_is_configured(c) == Truthy(c.VASTAI_API_KEY)

\* The id Vast.ai gives the instance rented by this invocation
NewContract == "i1"

\* Answers of GET bundles: a request error, or the offers' prices as listed
SeqsUpTo(S, n) == UNION {[1..k -> S] : k \in 0..n}
SearchAnswers ==
    {[kind |-> "error", offers |-> <<>>]}
    \cup {[kind |-> "ok", offers |-> o] : o \in SeqsUpTo(1..MaxPrice, MaxOffers)}

\* Answers of PUT asks/{offer_id}/: created tells whether Vast.ai rented the
\* instance; reply is what came back: a request error (also when the
\* reply was lost), an answer with new_contract, or an answer without it.
CreateAnswers ==
    {[created |-> c, reply |-> r] : c \in BOOLEAN, r \in {"error", "no_id"}}
    \cup {[created |-> TRUE, reply |-> "id"]}

\* Answers of GET instances/{id}/
InstanceAnswers ==
    {[kind |-> "error", actual_status |-> "-", ssh_host |-> "none", ssh_port |-> "none"]}
    \cup {[kind |-> "ok", actual_status |-> st, ssh_host |-> h, ssh_port |-> p] :
            st \in {"loading", "running"}, h \in {"none", "host"}, p \in {"none", "port"}}

\* Answers of DELETE instances/{id}/: deleted tells whether Vast.ai removed
\* the instance; error whether the request raised.
DestroyAnswers ==
    {[deleted |-> TRUE, error |-> FALSE], [deleted |-> FALSE, error |-> TRUE],
     [deleted |-> TRUE, error |-> TRUE]}

\* Variant: the offers are returned in the order of the answer
search_offers_Unsorted(answered) == SubSeq(answered, 1, Min(10, Len(answered)))

\* search_offers: offers.sort(key=dph_total); return offers[:10]
search_offers(answered) ==
    LET sorted == SortSeq(answered, LAMBDA a, b : a < b)
    IN  SubSeq(sorted, 1, Min(10, Len(sorted)))

InitVast ==
    /\ backend = "vastai"
    /\ credentials \in {[NoCredentials EXCEPT !.VASTAI_API_KEY = k] : k \in CredValues}
    /\ ppc = "call"
    /\ clock = 0
    /\ start_time = 0
    /\ outcome = NoOutcome
    /\ nOutcomes = 0
    /\ nPosts = 0
    /\ nChecks = 0
    /\ nFetches = 0
    /\ inProgPrefix = 0
    /\ onlyNetErr = TRUE
    /\ sawUnusable = FALSE
    /\ onlyUnknown = TRUE
    /\ sawFailure = FALSE
    /\ finalResp = NoResp
    /\ postResp = NoResp
    /\ VastIdle
    /\ ApiIdle
    /\ TaskIdle
    /\ CallerIdle

vastFrame == <<nPosts, nChecks, nFetches, inProgPrefix, onlyNetErr, sawUnusable,
               onlyUnknown, sawFailure,
               finalResp, postResp, backend, credentials, taskVars, callerVars,
               apiVars>>

\* An exception leaves the try block: except logs and re-raises it, the
\* finally clause runs next.
VastRaise(k, m) ==
    /\ pending_exc' = Raised(k, m)
    /\ ppc' = "finally"

\* generate_video entry: the is_configured test, instance_id = None
VastAI_generate_video ==
    /\ backend = "vastai"
    /\ ppc = "call"
    /\ IF VastAI_is_configured(credentials)
       THEN /\ ppc' = "search"
            /\ UNCHANGED <<outcome, nOutcomes>>
       ELSE Finish(Raised("ValueError", "not configured"))
    /\ instance_id' = "none"
    /\ UNCHANGED <<clock, start_time, gpu_idx, offers, listed, rented, ssh_host, ssh_port, pending_exc,
                   remote_instances, nCreates, destroyed, nApiRequests>>
    /\ UNCHANGED vastFrame

\* Step 1: one pass of the loop over ["A100_PCIE", "A100_SXM4", "RTX_4090"],
\* and, when the loop is over, the test of offers.
VastAI_search ==
    /\ backend = "vastai"
    /\ ppc = "search"
    /\ \E a \in SearchAnswers :
         LET found == IF a.kind = "error" THEN offers ELSE search_offers(a.offers)
             last == (gpu_idx = 3) \/ (a.kind = "ok" /\ found # <<>>)
         IN  /\ offers' = found
             /\ listed' = IF a.kind = "error" THEN listed ELSE a.offers
             /\ IF ~last
                THEN /\ gpu_idx' = gpu_idx + 1
                     /\ UNCHANGED <<ppc, pending_exc>>
                ELSE /\ UNCHANGED gpu_idx
                     /\ IF found = <<>>
                        THEN VastRaise("ValueError", "No suitable GPU offers found")
                        ELSE /\ ppc' = "create"
                             /\ UNCHANGED pending_exc
    /\ nApiRequests' = nApiRequests + 1
    /\ UNCHANGED <<clock, start_time, outcome, nOutcomes, rented, instance_id,
                   ssh_host, ssh_port, remote_instances, nCreates, destroyed>>
    /\ UNCHANGED vastFrame

\* create_instance: instance_id = response.get("new_contract")
create_instance(a) == IF a.reply = "id" THEN NewContract ELSE "none"

\* Step 2: create_instance(offers[0]) and the test of its instance_id
VastAI_create ==
    /\ backend = "vastai"
    /\ ppc = "create"
    /\ \E a \in CreateAnswers :
         /\ nCreates' = nCreates + 1
         /\ nApiRequests' = nApiRequests + 1
         /\ remote_instances' =
                IF a.created THEN remote_instances \cup {NewContract} ELSE remote_instances
         /\ IF a.reply = "error"
            THEN /\ VastRaise("RequestException", "create failed")
                 /\ UNCHANGED <<instance_id, start_time>>
            ELSE /\ instance_id' = create_instance(a)
                 /\ IF create_instance(a) = "none"
                    THEN /\ VastRaise("ValueError", "Failed to create instance")
                         /\ UNCHANGED start_time
                    ELSE /\ ppc' = "wait"
                         /\ start_time' = clock
                         /\ UNCHANGED pending_exc
    /\ rented' = offers[1]
    /\ UNCHANGED <<clock, outcome, nOutcomes, gpu_idx, offers, listed, ssh_host, ssh_port,
                   destroyed>>
    /\ UNCHANGED vastFrame

\* TRUE when the readiness loop breaks on instance answer a
InstanceReady(a) ==
    a.actual_status = "running" /\ a.ssh_host # "none" /\ a.ssh_port # "none"

\* Step 3: one evaluation of the readiness loop's condition and one pass of
\* its body; when the loop is over, the test of ssh_host.
VastAI_wait ==
    /\ backend = "vastai"
    /\ ppc = "wait"
    /\ nApiRequests' = IF LoopCondition(StartupTimeout)
                       THEN nApiRequests + 1 ELSE nApiRequests
    /\ IF LoopCondition(StartupTimeout)
       THEN \E a \in InstanceAnswers :
              IF a.kind = "error"
              THEN /\ VastRaise("RequestException", "get_instance failed")
                   /\ UNCHANGED <<clock, ssh_host, ssh_port>>
              ELSE /\ ssh_host' = IF a.actual_status = "running" THEN a.ssh_host ELSE ssh_host
                   /\ ssh_port' = IF a.actual_status = "running" THEN a.ssh_port ELSE ssh_port
                   /\ IF InstanceReady(a)
                      THEN /\ ppc' = "generate"
                           /\ UNCHANGED <<clock, pending_exc>>
                      ELSE /\ clock' = clock + StartupSleep
                           /\ UNCHANGED <<ppc, pending_exc>>
       ELSE /\ IF ssh_host = "none"
               THEN VastRaise("TimeoutError", "Instance failed to start")
               ELSE /\ ppc' = "generate"
                    /\ UNCHANGED pending_exc
            /\ UNCHANGED <<clock, ssh_host, ssh_port>>
    /\ UNCHANGED <<start_time, outcome, nOutcomes, gpu_idx, offers, listed, rented, instance_id,
                   remote_instances, nCreates, destroyed>>
    /\ UNCHANGED vastFrame

\* Step 4: the generation step, which raises NotImplementedError
VastAI_generate ==
    /\ backend = "vastai"
    /\ ppc = "generate"
    /\ VastRaise("NotImplementedError", "SSH-based generation")
    /\ UNCHANGED <<clock, start_time, outcome, nOutcomes, gpu_idx, offers, listed, rented, instance_id,
                   ssh_host, ssh_port, remote_instances, nCreates, destroyed,
                   nApiRequests>>
    /\ UNCHANGED vastFrame

\* Variant: the cleanup runs only for an instance that became ready
CleanupWanted_OnlyReady == instance_id # "none" /\ ssh_host # "none"

\* finally: "if instance_id:" guards the cleanup
CleanupWanted == instance_id # "none"

\* destroy_instance(id) answered by a: the DELETE request; an exception of
\* the request is logged and False returned.
destroy_instance(id, a) ==
    /\ destroyed' = Append(destroyed, id)
    /\ nApiRequests' = nApiRequests + 1
    /\ remote_instances' = IF a.deleted THEN remote_instances \ {id} ELSE remote_instances

\* The finally clause of generate_video, then the pending exception leaves
VastAI_finally ==
    /\ backend = "vastai"
    /\ ppc = "finally"
    /\ IF CleanupWanted
       THEN \E a \in DestroyAnswers : destroy_instance(instance_id, a)
       ELSE UNCHANGED <<destroyed, remote_instances, nApiRequests>>
    /\ Finish(pending_exc)
    /\ UNCHANGED <<clock, start_time, gpu_idx, offers, listed, rented, instance_id, ssh_host, ssh_port,
                   pending_exc, nCreates>>
    /\ UNCHANGED vastFrame

NextVast ==
    \/ VastAI_generate_video
    \/ VastAI_search
    \/ VastAI_create
    \/ VastAI_wait
    \/ VastAI_generate
    \/ VastAI_finally

SpecVast == InitVast /\ [][NextVast]_vars

\* ------------------------------------------------------------------------
\* check_health of the three services
\* ------------------------------------------------------------------------
\* The credentials a service object of backend b may hold
ServiceCredentials(b) ==
    IF b = "runpod"
    THEN {[NoCredentials EXCEPT !.RUNPOD_API_KEY = k, !.RUNPOD_ENDPOINT_ID = e] :
            k \in CredValues, e \in CredValues}
    ELSE IF b = "replicate"
    THEN {[NoCredentials EXCEPT !.REPLICATE_API_TOKEN = t] : t \in CredValues}
    ELSE {[NoCredentials EXCEPT !.VASTAI_API_KEY = k] : k \in CredValues}

\* Answers of the GET of check_health: the request raises, or answers with
\* a status code (runpod, replicate) / a JSON object with or without "id"
\* (vastai: raise_for_status makes a non-2xx answer an error)
HealthAnswers == {"error", "200", "503", "id", "no_id"}

\* A service object on which check_health is about to be called
InitHealth ==
    /\ backend \in {"runpod", "replicate", "vastai"}
    /\ credentials \in ServiceCredentials(backend)
    /\ ppc = "health"
    /\ clock = 0
    /\ start_time = 0
    /\ outcome = NoOutcome
    /\ nOutcomes = 0
    /\ nPosts = 0
    /\ nChecks = 0
    /\ nFetches = 0
    /\ inProgPrefix = 0
    /\ onlyNetErr = TRUE
    /\ sawUnusable = FALSE
    /\ onlyUnknown = TRUE
    /\ sawFailure = FALSE
    /\ finalResp = NoResp
    /\ postResp = NoResp
    /\ VastIdle
    /\ ApiIdle
    /\ TaskIdle
    /\ CallerIdle

\* The body shared by the three check_health methods: False without a
\* request when not configured; else one GET, answered by one of answers,
\* True when the answer is good, False otherwise (bare except included)
check_health(configured, answers, good) ==
    /\ ppc = "health"
    /\ ppc' = "health_done"
    /\ IF ~configured
       THEN /\ health' = "False"
            /\ UNCHANGED nHealthGets
       ELSE \E a \in answers :
              /\ nHealthGets' = nHealthGets + 1
              /\ health' = IF a = good THEN "True" ELSE "False"
    /\ UNCHANGED <<backend, credentials, clock, start_time, outcome, nOutcomes, nPosts,
                   nChecks, nFetches, inProgPrefix, onlyNetErr, sawUnusable, finalResp,
                   onlyUnknown, sawFailure,
                   postResp>>
    /\ UNCHANGED <<gpu_idx, offers, listed, rented, instance_id, ssh_host, ssh_port, pending_exc,
                   remote_instances, nCreates, destroyed>>
    /\ UNCHANGED <<hook_args, hook_results, hook_before, cancel_requested>>
    /\ UNCHANGED apiVars
    /\ UNCHANGED taskVars

\* gpu_worker.py check_health: GET {base_url}/health
GPU_check_health ==
    /\ backend = "runpod"
    /\ check_health(GPU_is_configured(credentials), {"error", "200", "503"}, "200")
    /\ UNCHANGED nApiRequests

\* replicate_worker.py check_health: GET {base_url}/models
Replicate_check_health ==
    /\ backend = "replicate"
    /\ check_health(Replicate_is_configured(credentials), {"error", "200", "503"}, "200")
    /\ UNCHANGED nApiRequests

\* vastai_worker.py check_health: _api_request("GET", "users/current/")
VastAI_check_health ==
    /\ backend = "vastai"
    /\ check_health(VastAI_is_configured(credentials), {"error", "id", "no_id"}, "id")
    /\ nApiRequests' = nApiRequests + (nHealthGets' - nHealthGets)

InitService == InitPoll \/ InitVast \/ InitHealth

NextService ==
    \/ NextPoll
    \/ NextVast
    \/ GPU_check_health
    \/ Replicate_check_health
    \/ VastAI_check_health

\* One operation, generate_video or check_health, on one service object
SpecService == InitService /\ [][NextService]_vars

\* ------------------------------------------------------------------------
\* Claims about the Vast.ai provisioning
\* ------------------------------------------------------------------------
\* C5: on every path on which create_instance returned an instance id,
\* destroy_instance is called exactly once, with that id, before
\* generate_video ends; it is not called without an id.
C5_DestroyExactlyOnce ==
    backend = "vastai" =>
        /\ (ppc = "done" /\ instance_id # "none") => destroyed = <<instance_id>>
        /\ (ppc # "done" \/ instance_id = "none") => destroyed = <<>>

C5_Witness ==
    /\ backend = "vastai"
    /\ ppc = "done"
    /\ outcome.kind = "NotImplementedError"
    /\ instance_id = NewContract
    /\ destroyed = <<NewContract>>

\* C6: when generate_video has ended no instance it created exists at
\* Vast.ai any more.
C6_NoInstanceLeak ==
    (backend = "vastai" /\ ppc = "done") => remote_instances = {}

\* ------------------------------------------------------------------------
\* Celery task generate_video_task and the on_failure hook: worker/tasks.py
\* ------------------------------------------------------------------------
\* The API layer created the row of video 1 (status pending); video 2 has
\* no row, and a task may be delivered for it all the same.
InitTask ==
    /\ credentials \in TaskSettings
    /\ PollLoopIdle
    /\ VastIdle
    /\ ApiIdle
    /\ CallerIdle
    /\ db = [v \in VideoIds |-> IF v = 1 THEN PendingRow ELSE AbsentRow]
    /\ now = 0
    /\ nRuns = 0
    /\ tpc = [w \in Workers |-> "idle"]
    /\ video_id = [w \in Workers |-> 1]
    /\ video = [w \in Workers |-> AbsentRow]
    /\ expired = [w \in Workers |-> FALSE]
    /\ cause = [w \in Workers |-> "none"]
    /\ exc = [w \in Workers |-> "none"]
    /\ handled = [w \in Workers |-> "-"]
    /\ work_dir = [w \in Workers |-> "none"]

taskFrame == <<pollVars, vastVars, callerVars, apiVars>>

\* datetime.utcnow(): the time read (now') is the last one stored or later
utcnow == now' \in now..MaxTime

\* The UPDATE a Session.commit() flushes for one object: the columns in fs
\* were assigned the values of new; a column is written when the object was
\* expired or the value differs from the loaded one.  Other columns keep
\* what the table holds.
Flush(dbrow, loaded, isExpired, fs, new) ==
    [f \in DOMAIN dbrow |->
        IF f \in fs /\ (isExpired \/ new[f] # loaded[f]) THEN new[f] ELSE dbrow[f]]

\* uuid-named output object of a run
OutputUrl(w) == IF w = "w1" THEN "outputs/1.mp4" ELSE "outputs/2.mp4"

\* Variant: the except clause records the run as cancelled
handler_assign_Cancelled(e) == [status |-> "cancelled", error_message |-> e]

\* except clause: video.status = FAILED; video.error_message = str(e)
handler_assign(e) == [status |-> "failed", error_message |-> e]

\* The except clause of generate_video_task(v) for exception e, with the
\* session's object loaded/isExpired: the two assignments, db.commit() and
\* "raise"; when that commit raises, its exception leaves instead.
handler(w, v, e, loaded, isExpired) ==
    /\ cause' = [cause EXCEPT ![w] = e]
    /\ tpc' = [tpc EXCEPT ![w] = "raised"]
    /\ expired' = [expired EXCEPT ![w] = TRUE]
    /\ \E ok \in BOOLEAN :
         IF ok
         THEN /\ db' = [db EXCEPT ![v] =
                          Flush(@, loaded, isExpired, {"status", "error_message"},
                                handler_assign(e))]
              /\ exc' = [exc EXCEPT ![w] = e]
              /\ handled' = [handled EXCEPT ![w] = "committed"]
         ELSE /\ UNCHANGED db
              /\ exc' = [exc EXCEPT ![w] = "OperationalError (handler commit)"]
              /\ handled' = [handled EXCEPT ![w] = "commit failed"]

\* The except clause when the name video is unbound (the query raised) or
\* None (no row): the assignment video.status raises, nothing is written.
handler_without_video(w, e, raised) ==
    /\ cause' = [cause EXCEPT ![w] = e]
    /\ tpc' = [tpc EXCEPT ![w] = "raised"]
    /\ exc' = [exc EXCEPT ![w] = raised]
    /\ handled' = [handled EXCEPT ![w] = "no video"]
    /\ UNCHANGED <<db, expired>>

\* A worker process without a task
Free(w) == tpc[w] = "idle"

\* The task queue delivers generate_video_task(v) to a free worker (the
\* workers are alike: the first free one takes it)
deliver(w, v) ==
    /\ Free(w)
    /\ w = "w2" => ~Free("w1")
    /\ nRuns < MaxRuns
    /\ nRuns' = nRuns + 1
    /\ video_id' = [video_id EXCEPT ![w] = v]
    /\ work_dir' = [work_dir EXCEPT ![w] = "none"]

\* Variant: the start time is recorded, the status is left as loaded
begin_assign_StatusLater(row, t) ==
    [status |-> row.status, processing_started_at |-> t]

\* lines 72-73: video.status = PROCESSING; processing_started_at = utcnow()
begin_assign(row, t) == [status |-> "processing", processing_started_at |-> t]

\* generate_video_task(v) starts on worker w, lines 63-74: the query, the
\* not-found test, status = PROCESSING, processing_started_at = utcnow(),
\* commit
generate_video_task_begin(w, v) ==
    /\ deliver(w, v)
    /\ LET row == db[v] IN
       \/ \* the query raises
          /\ handler_without_video(w, "OperationalError (query)", "UnboundLocalError")
          /\ UNCHANGED <<video, now>>
       \/ /\ row.status = "absent"
          /\ handler_without_video(w, "Video not found", "AttributeError")
          /\ UNCHANGED <<video, now>>
       \/ /\ row.status # "absent"
          /\ video' = [video EXCEPT ![w] = row]
          /\ \/ /\ utcnow
                /\ db' = [db EXCEPT ![v] =
                            Flush(@, row, FALSE, {"status", "processing_started_at"},
                                  begin_assign(row, now'))]
                /\ tpc' = [tpc EXCEPT ![w] = "download"]
                /\ expired' = [expired EXCEPT ![w] = TRUE]
                /\ UNCHANGED <<cause, exc, handled>>
             \/ \* the commit raises: rollback, then the except clause
                /\ handler(w, v, "OperationalError (commit)", row, TRUE)
                /\ UNCHANGED now
    /\ UNCHANGED taskFrame

\* lines 78-96: work_dir, the keys read from video.reference_image_url and
\* video.audio_url (the expired object is loaded again), the two downloads
generate_video_task_download(w) ==
    /\ tpc[w] = "download"
    /\ video' = [video EXCEPT ![w] = db[video_id[w]]]
    /\ work_dir' = [work_dir EXCEPT ![w] = "exists"]
    /\ \/ /\ tpc' = [tpc EXCEPT ![w] = "generate"]
          /\ expired' = [expired EXCEPT ![w] = FALSE]
          /\ UNCHANGED <<db, cause, exc, handled>>
       \/ handler(w, video_id[w], "download failed", db[video_id[w]], FALSE)
    /\ UNCHANGED <<now, nRuns, video_id>>
    /\ UNCHANGED taskFrame

\* lines 100-138: get_service().generate(...), the upload of output.mp4 and
\* the cv2 duration probe, none of which touches the session: all three
\* succeed, or the first that fails raises.
generate_video_task_generate(w) ==
    /\ tpc[w] = "generate"
    /\ \/ /\ tpc' = [tpc EXCEPT ![w] = "complete"]
          /\ UNCHANGED <<db, cause, exc, handled, expired>>
       \/ \E e \in {"generation failed", "upload failed", "probe failed"} :
             handler(w, video_id[w], e, video[w], expired[w])
    /\ UNCHANGED <<now, nRuns, video_id, video, work_dir>>
    /\ UNCHANGED taskFrame

\* Variant: the completed state without the output URL
complete_assign_NoUrl(w, t) ==
    [status |-> "completed",
     output_video_url |-> "none",
     processing_completed_at |-> t,
     processing_time_seconds |-> t - video[w].processing_started_at]

\* lines 140-146: the assignments of the completed state, at time t
complete_assign(w, t) ==
    [status |-> "completed",
     output_video_url |-> OutputUrl(w),
     processing_completed_at |-> t,
     processing_time_seconds |-> t - video[w].processing_started_at]

\* The worker process is free again: the session is closed (finally:
\* db.close()) and the task's locals are gone.
task_ends(w) ==
    /\ tpc' = [tpc EXCEPT ![w] = "idle"]
    /\ video' = [video EXCEPT ![w] = AbsentRow]
    /\ expired' = [expired EXCEPT ![w] = FALSE]
    /\ cause' = [cause EXCEPT ![w] = "none"]
    /\ exc' = [exc EXCEPT ![w] = "none"]
    /\ handled' = [handled EXCEPT ![w] = "-"]

\* lines 140-160, 172-173: the completed commit, cleanup, the return and
\* finally: db.close(); or the commit raises and the except clause runs
generate_video_task_complete(w) ==
    /\ tpc[w] = "complete"
    /\ \/ /\ utcnow
          /\ db' = [db EXCEPT ![video_id[w]] =
                      Flush(@, video[w], expired[w],
                            {"status", "output_video_url", "processing_completed_at",
                             "processing_time_seconds"},
                            complete_assign(w, now'))]
          /\ task_ends(w)
          /\ work_dir' = [work_dir EXCEPT ![w] = "none"]
       \/ /\ handler(w, video_id[w], "OperationalError (commit)", video[w], TRUE)
          /\ UNCHANGED <<now, video, work_dir>>
    /\ UNCHANGED <<nRuns, video_id>>
    /\ UNCHANGED taskFrame

\* Variant: the hook records the status only
on_failure_write_StatusOnly(row, e) ==
    IF row.status = "absent" THEN row ELSE [row EXCEPT !.status = "failed"]

\* on_failure lines 46-50 when the commit goes through: the row found by the
\* query gets status FAILED and error_message str(exc); no row, no write
on_failure_write(row, e) ==
    IF row.status = "absent"
    THEN row
    ELSE Flush(row, row, FALSE, {"status", "error_message"},
               [status |-> "failed", error_message |-> e])

\* Variant: the hook's query has no filter, .first() gives the first row
hook_video_id_First(w) == 1

\* on_failure line 43 and the filter of line 46: video_id = args[0]
hook_video_id(w) == video_id[w]

\* VideoGenerationTask.on_failure(exc, task_id, args, ...), called by
\* Celery after the task raised exc: a session of its own
on_failure(w) ==
    /\ tpc[w] = "raised"
    /\ task_ends(w)
    /\ LET row == db[hook_video_id(w)] IN
       IF row.status = "absent"
       THEN UNCHANGED db
       ELSE \/ db' = [db EXCEPT ![hook_video_id(w)] = on_failure_write(row, exc[w])]
            \/ UNCHANGED db      \* the hook's commit raises
    /\ UNCHANGED <<now, nRuns, video_id, work_dir>>
    /\ UNCHANGED taskFrame

\* The worker process dies while it runs the task (kill -9, out of memory,
\* power loss): no except clause, no finally, no hook; the session's
\* uncommitted assignments are gone with the process, and its replacement
\* is free for the next task.
crash(w) ==
    /\ tpc[w] \in {"download", "generate", "complete", "raised"}
    /\ task_ends(w)
    /\ UNCHANGED <<db, now, nRuns, video_id, work_dir>>
    /\ UNCHANGED taskFrame

Next ==
    \/ \E w \in Workers, v \in VideoIds : generate_video_task_begin(w, v)
    \/ \E w \in Workers : generate_video_task_download(w)
    \/ \E w \in Workers : generate_video_task_generate(w)
    \/ \E w \in Workers : generate_video_task_complete(w)
    \/ \E w \in Workers : on_failure(w)
    \/ \E w \in Workers : crash(w)

Spec == InitTask /\ [][Next]_vars

\* The API layer created the rows of both videos
InitRecords ==
    /\ PollIdle
    /\ VastIdle
    /\ ApiIdle
    /\ CallerIdle
    /\ db = [v \in VideoIds |-> PendingRow]
    /\ now = 0
    /\ nRuns = 0
    /\ tpc = [w \in Workers |-> "idle"]
    /\ video_id = [w \in Workers |-> 1]
    /\ video = [w \in Workers |-> AbsentRow]
    /\ expired = [w \in Workers |-> FALSE]
    /\ cause = [w \in Workers |-> "none"]
    /\ exc = [w \in Workers |-> "none"]
    /\ handled = [w \in Workers |-> "-"]
    /\ work_dir = [w \in Workers |-> "none"]

\* Runs on two existing records
SpecRecords == InitRecords /\ [][Next]_vars

\* ---- on_failure invoked directly with (video_id, error) ----
\* Error texts handed to the hook
HookErrors == {"generation failed", "upload failed"}

\* Records the hook may meet: any status, with or without an earlier error
\* and earlier timestamps
HookRows ==
    {Row(st, em, sa, ca, ca, url) :
        st \in VideoStatus, em \in {"none"} \cup HookErrors,
        sa \in {Null, 0}, ca \in {Null, 0}, url \in {"none", "outputs/1.mp4"}}

InitHook ==
    /\ PollIdle
    /\ VastIdle
    /\ ApiIdle
    /\ db \in {[v \in VideoIds |-> IF v = 1 THEN r ELSE AbsentRow] : r \in HookRows}
    /\ now = 0
    /\ nRuns = 0
    /\ tpc = [w \in Workers |-> "idle"]
    /\ video_id = [w \in Workers |-> 1]
    /\ video = [w \in Workers |-> AbsentRow]
    /\ expired = [w \in Workers |-> FALSE]
    /\ cause = [w \in Workers |-> "none"]
    /\ exc = [w \in Workers |-> "none"]
    /\ handled = [w \in Workers |-> "-"]
    /\ work_dir = [w \in Workers |-> "none"]
    /\ hook_args \in [v : VideoIds, e : HookErrors]
    /\ hook_results = <<>>
    /\ hook_before = AbsentRow
    /\ health = "-"
    /\ nHealthGets = 0
    /\ cancel_requested = FALSE

\* on_failure(exc, task_id, args = (video_id,), ...) called with hook_args:
\* it returns, or its commit raises and the exception leaves the hook
invoke_on_failure ==
    /\ Len(hook_results) < MaxHookCalls
    /\ LET row == db[hook_args.v] IN
         /\ hook_before' = row
         /\ \/ /\ db' = [db EXCEPT ![hook_args.v] = on_failure_write(row, hook_args.e)]
               /\ hook_results' = Append(hook_results, "returned")
            \/ /\ row.status # "absent"
               /\ UNCHANGED db
               /\ hook_results' = Append(hook_results, "raised")
    /\ UNCHANGED <<now, nRuns, tpc, video_id, video, expired, cause, exc, handled,
                   work_dir>>
    /\ UNCHANGED <<hook_args, health, nHealthGets, cancel_requested>>
    /\ UNCHANGED apiVars
    /\ UNCHANGED <<pollVars, vastVars>>

NextHook == invoke_on_failure

SpecHook == InitHook /\ [][NextHook]_vars

\* ------------------------------------------------------------------------
\* Claims about the task and the failure hook
\* ------------------------------------------------------------------------
\* C1: once a record's status is completed, failed or cancelled, no step of
\* a run or of the failure hook changes it.
C1_TerminalStatusAbsorbing ==
    [][\A v \in VideoIds :
          db[v].status \in TerminalStatus => db'[v].status = db[v].status]_vars

\* A run of worker w leaves its try block by an exception in this step, on
\* a record that was found
TaskRaises(w) ==
    /\ tpc[w] # "raised"
    /\ tpc'[w] = "raised"
    /\ handled'[w] # "no video"

\* C10: whatever step of a run on an existing record raises, the
\* record becomes failed with error_message the exception text, and that
\* exception is raised to the task queue.
C10_EveryFailureRecorded ==
    [][\A w \in Workers :
          TaskRaises(w) =>
              /\ db'[video_id'[w]].status = "failed"
              /\ db'[video_id'[w]].error_message = cause'[w]
              /\ exc'[w] = cause'[w]]_vars

\* C11: in every state a failed record has its completion timestamp and its
\* processing time set (the transition into failed sets them).
C11_FailedHasCompletionTime ==
    \A v \in VideoIds :
        db[v].status = "failed" =>
            /\ db[v].processing_completed_at # Null
            /\ db[v].processing_time_seconds # Null

\* C12: once processing_started_at is set no step changes it.
C12_StartedAtSetOnce ==
    [][\A v \in VideoIds :
          db[v].processing_started_at # Null =>
              db'[v].processing_started_at = db[v].processing_started_at]_vars

\* C13: whenever processing_time_seconds is set it equals
\* processing_completed_at minus processing_started_at of the same record.
C13_ProcessingTimeIsDifference ==
    \A v \in VideoIds :
        db[v].processing_time_seconds # Null =>
            db[v].processing_time_seconds =
                db[v].processing_completed_at - db[v].processing_started_at

\* The commit of worker w's run writes status completed in this step (the
\* run ends there, and not by the death of the worker)
WritesCompleted(w) ==
    /\ tpc[w] = "complete"
    /\ tpc'[w] = "idle"
    /\ ~crash(w)

\* C14: a completed record has an output URL and a processing time >= 0, and
\* a record becomes completed only by the commit of a run that is past
\* generation and upload, which leaves all of these set.
C14_CompletedHasOutput ==
    /\ [](\A v \in VideoIds :
            db[v].status = "completed" =>
                /\ db[v].output_video_url # "none"
                /\ db[v].processing_completed_at # Null
                /\ db[v].processing_time_seconds # Null
                /\ db[v].processing_time_seconds >= 0)
    /\ [][\A v \in VideoIds :
            (db'[v].status = "completed" /\ db[v].status # "completed") =>
                \E w \in Workers : WritesCompleted(w) /\ video_id[w] = v]_vars
    /\ [][\A w \in Workers :
            WritesCompleted(w) =>
                /\ db'[video_id[w]].output_video_url # "none"
                /\ db'[video_id[w]].processing_completed_at = now'
                /\ db'[video_id[w]].processing_time_seconds # Null]_vars

C14_Witness ==
    /\ db[1].status = "completed"
    /\ db[1].output_video_url = "outputs/1.mp4"
    /\ db[1].processing_completed_at = 1
    /\ db[1].processing_time_seconds = 1

\* C16: no step of a run and no failure hook makes a record cancelled; a run
\* whose generation raised (a timeout included) leaves no cancelled record.
C16_NeverWritesCancelled ==
    [][\A v \in VideoIds :
          db'[v].status = "cancelled" => db[v].status = "cancelled"]_vars

C16_Witness ==
    /\ db[1].status = "failed"
    /\ db[1].error_message = "generation failed"
    /\ \A w \in Workers : tpc[w] = "idle"

\* C15: a direct invocation of on_failure with (video_id, error) that
\* returns leaves an existing record failed with error_message the error
\* text and its other columns as they were; without a record it writes
\* nothing and raises nothing; a second invocation with the same arguments
\* leaves the record as the first left it.
C15_HookSetsFailedIdempotently ==
    hook_results # <<>> =>
        LET n == Len(hook_results)
            row == db[hook_args.v]
        IN  /\ hook_before.status = "absent" =>
                  /\ hook_results[n] = "returned"
                  /\ row = hook_before
            /\ (hook_before.status # "absent" /\ hook_results[n] = "returned") =>
                  row = [hook_before EXCEPT !.status = "failed",
                                            !.error_message = hook_args.e]
            /\ (n >= 2 /\ hook_results[n] = "returned"
                       /\ hook_results[n - 1] = "returned") =>
                  row = hook_before

C15_Witness ==
    /\ hook_results = <<"returned", "returned">>
    /\ hook_args = [v |-> 1, e |-> "upload failed"]
    /\ hook_before.status = "failed"
    /\ db[1].status = "failed"
    /\ db[1].error_message = "upload failed"
    /\ db[1].output_video_url = "outputs/1.mp4"

\* ------------------------------------------------------------------------
\* Claims about configuration, submission and cancellation
\* ------------------------------------------------------------------------
\* A credential the backend requires is None or empty
RequiredMissing ==
    \/ backend = "runpod" /\ (credentials.RUNPOD_API_KEY # "set"
                               \/ credentials.RUNPOD_ENDPOINT_ID # "set")
    \/ backend = "replicate" /\ credentials.REPLICATE_API_TOKEN # "set"
    \/ backend = "vastai" /\ credentials.VASTAI_API_KEY # "set"

\* C17: a service with a required credential missing issues no network
\* request: generate_video raises the not-configured error and check_health
\* returns False, both without a request.
C17_UnconfiguredNeverContacted ==
    RequiredMissing =>
        /\ nPosts = 0 /\ nChecks = 0 /\ nFetches = 0
        /\ nApiRequests = 0 /\ nCreates = 0 /\ destroyed = <<>>
        /\ nHealthGets = 0
        /\ ppc \in {"call", "done", "health", "health_done"}
        /\ ppc = "done" => outcome = Raised("ValueError", "not configured")
        /\ ppc = "health_done" => health = "False"

C17_Witness ==
    /\ backend = "runpod"
    /\ credentials.RUNPOD_API_KEY = "set"
    /\ credentials.RUNPOD_ENDPOINT_ID = "empty"
    /\ ppc = "done"
    /\ outcome = Raised("ValueError", "not configured")
    /\ nPosts = 0

\* C18: one invocation of generate_video sends the create request at most
\* once, and exactly once when the service is configured, whatever the
\* answer.
C18_OneCreateRequest ==
    /\ nPosts <= 1
    /\ (postResp # NoResp) <=> (nPosts = 1)
    /\ (ppc \in {"poll", "done"} /\ ~RequiredMissing) => nPosts = 1

C18_Witness ==
    /\ ppc = "done"
    /\ postResp.kind = "http_error"
    /\ nPosts = 1
    /\ nChecks = 0

\* The create request raised, or its answer has no usable id
CreateFailed ==
    /\ postResp # NoResp
    /\ IsRequestException(postResp) \/ postResp.status \in {"none", "empty"}

\* C19: when the create request raises or its answer carries no job id,
\* generate_video ends with the request's exception or the no-id error
\* and no status check is made.
C19_FailedCreateNoStatusCheck ==
    CreateFailed =>
        /\ ppc = "done"
        /\ nChecks = 0
        /\ nFetches = 0
        /\ outcome = IF IsRequestException(postResp)
                     THEN Raised("RequestException", postResp.kind)
                     ELSE Raised("ValueError", "No job ID returned")

C19_Witness ==
    /\ backend = "replicate"
    /\ postResp.kind = "json"
    /\ postResp.status = "empty"
    /\ ppc = "done"
    /\ outcome.kind = "ValueError"

\* C20: a poll pass that starts after the caller asked for cancellation
\* ends the loop.
C20_PollIsCancellable ==
    [][(cancel_requested /\ ppc = "poll") => ppc' = "done"]_vars

\* ------------------------------------------------------------------------
\* Claims about the unsupported Vast.ai generation step
\* ------------------------------------------------------------------------
\* C22: generate_video of the Vast.ai service never returns a success
\* result, and when it raises NotImplementedError it has not created a
\* remote instance nor waited for an instance to become ready.
C22_NotImplementedBeforeProvisioning ==
    backend = "vastai" =>
        /\ outcome.kind # "Success"
        /\ outcome.kind = "NotImplementedError" =>
               /\ nCreates = 0
               /\ instance_id = "none"
               /\ ssh_host = "none"

\* ------------------------------------------------------------------------
\* Claims about the choice of the backend in a run
\* ------------------------------------------------------------------------
\* The backends whose is_configured() holds under the process's settings
ConfiguredBackends ==
    {b \in {"runpod", "replicate", "vastai"} :
        \/ b = "runpod" /\ GPU_is_configured(credentials)
        \/ b = "replicate" /\ Replicate_is_configured(credentials)
        \/ b = "vastai" /\ VastAI_is_configured(credentials)}

\* C21: with two configured backends, a run whose generation service failed
\* does not fail: it goes on with the other backend.
C21_FallbackToSecondCandidate ==
    \A w \in Workers :
        (Cardinality(ConfiguredBackends) >= 2 /\ cause[w] = "generation failed")
            => tpc[w] # "raised"

\* ------------------------------------------------------------------------
\* Claims about a worker that dies during a run
\* ------------------------------------------------------------------------
\* C23: the persisted status only takes the values of the processing commit
\* and of the terminal commits, and when the worker dies after the
\* processing commit of its run and before the terminal commit, the record
\* is left with status processing and with output_video_url,
\* processing_completed_at and processing_time_seconds unset.
C23_CrashLeavesProcessing ==
    [][\A w \in Workers :
         /\ \A v \in VideoIds :
              db'[v].status \in {"absent", "pending", "processing", "completed", "failed"}
         /\ (tpc[w] \in {"download", "generate", "complete"} /\ crash(w)) =>
                LET r == db'[video_id[w]]
                IN  /\ r = db[video_id[w]]
                    /\ r.status = "processing"
                    /\ r.output_video_url = "none"
                    /\ r.processing_completed_at = Null
                    /\ r.processing_time_seconds = Null]_vars

\* ------------------------------------------------------------------------
\* Claims about the records a run writes
\* ------------------------------------------------------------------------
\* C24: a step of a run or of its failure hook for video id v leaves every
\* field of every other record unchanged, however the runs interleave.
C24_WritesOnlyOwnRecord ==
    [][\A w \in Workers :
         tpc'[w] # tpc[w] =>
             \A v \in VideoIds \ {video_id'[w]} : db'[v] = db[v]]_vars

C24_Witness ==
    /\ video_id["w1"] # video_id["w2"]
    /\ tpc["w1"] = "complete"
    /\ tpc["w2"] = "idle"
    /\ db[video_id["w1"]].status = "processing"
    /\ db[video_id["w2"]].status = "failed"
    /\ db[video_id["w2"]].error_message = "generation failed"

\* ------------------------------------------------------------------------
\* Request validation: backend/schemas/video.py
\* ------------------------------------------------------------------------
\* The body supplies field f
Supplied(r, f) ==
    IF f \in {"num_inference_steps", "num_frames"} THEN r[f] # {} ELSE r[f] # "absent"

\* validate_audio_source(cls, v, values), values given by its keys: FALSE
\* when it raises ValueError, TRUE when it returns v
validate_audio_source(values) ==
    ~("text_input" \notin values /\ "audio_file" \notin values)

\* Validation of one field, values holding the keys of the fields validated
\* before it: a required field (...) must be supplied; the validator of
\* text_input and audio_file runs only for a supplied field (no always=True);
\* ge / le bound a supplied integer.
FieldValid(r, f, values) ==
    CASE f \in {"reference_image", "prompt"} -> Supplied(r, f)
      [] f \in {"audio_file", "text_input"} ->
             Supplied(r, f) => validate_audio_source(values)
      [] f = "num_inference_steps" -> \A n \in r[f] : n >= 10 /\ n <= 100
      [] f = "num_frames" -> \A n \in r[f] : n >= 1 /\ n <= 257

\* The keys of values when field number i is validated: the earlier fields
\* that passed (a field left out is there with its default; a field that
\* failed is not)
RECURSIVE ValuesBefore(_, _)
ValuesBefore(r, i) ==
    IF i = 1
    THEN {}
    ELSE LET vs == ValuesBefore(r, i - 1)
             f == RequestFields[i - 1]
         IN  IF FieldValid(r, f, vs) THEN vs \cup {f} ELSE vs

\* VideoGenerationRequest(**body): TRUE when no field raised
VideoGenerationRequest_accepts(r) ==
    \A i \in 1..Len(RequestFields) :
        FieldValid(r, RequestFields[i], ValuesBefore(r, i))

InitRequest ==
    /\ PollIdle
    /\ VastIdle
    /\ TaskIdle
    /\ CallerIdle
    /\ request \in Requests
    /\ validation = "-"
    /\ gen_args = NoArgs
    /\ payload = NoPayload
    /\ handler_result = NoHandlerResult
    /\ pod = ReadyPod
    /\ StoreIdle

\* The API layer builds VideoGenerationRequest from the body
VideoGenerationRequest_validate ==
    /\ validation = "-"
    /\ validation' = IF VideoGenerationRequest_accepts(request)
                     THEN "accepted" ELSE "rejected"
    /\ UNCHANGED <<request, gen_args, payload, handler_result, pod, storeVars>>
    /\ UNCHANGED <<pollVars, vastVars, taskVars, callerVars>>

NextRequest == VideoGenerationRequest_validate

SpecRequest == InitRequest /\ [][NextRequest]_vars

\* The fields other than the two audio sources are valid
OtherFieldsValid(r) ==
    /\ Supplied(r, "reference_image")
    /\ Supplied(r, "prompt")
    /\ \A n \in r.num_inference_steps : n >= 10 /\ n <= 100
    /\ \A n \in r.num_frames : n >= 1 /\ n <= 257

\* C25: a request that supplies neither text_input nor audio_file is
\* rejected; a request that supplies at least one of them, its other fields
\* valid, is accepted.
C25_AudioSourceRequired ==
    validation # "-" =>
        /\ (~Supplied(request, "text_input") /\ ~Supplied(request, "audio_file"))
               => validation = "rejected"
        /\ ((Supplied(request, "text_input") \/ Supplied(request, "audio_file"))
                /\ OtherFieldsValid(request))
               => validation = "accepted"

\* ------------------------------------------------------------------------
\* The RunPod payload (gpu_worker.py) and the handler's input validation
\* (deployment/runpod/handler.py)
\* ------------------------------------------------------------------------
\* base64.b64encode(reference_image).decode('utf-8')
b64encode(s) ==
    CASE s = "" -> "" [] s = "img" -> "aW1n" [] s = "wav" -> "d2F2" [] s = "mp4" -> "bXA0"

\* base64.b64decode(s) of handler.py raises binascii.Error (a text whose
\* length is not a multiple of four)
b64decode_raises(s) == s \notin {"", "aW1n", "d2F2", "bXA0"}

\* gpu_worker.py lines 70-82: the payload built from the arguments
GPU_payload(a) ==
    [input |->
        [reference_image |-> b64encode(a.reference_image),
         prompt |-> a.prompt,
         settings |->
            [num_inference_steps |-> a.num_inference_steps,
             num_frames |-> a.num_frames,
             resolution |-> a.resolution,
             aspect_ratio |-> a.aspect_ratio,
             seed |-> a.seed]]]

\* Variant: the outer except clause logs and raises again
Handler_except_Raise(e) == [status |-> "raised", error |-> e]

\* handler.py lines 326-331: except Exception as e: return failed, str(e)
Handler_except(e) == [status |-> "failed", error |-> e]

\* return {"status": "failed", "error": ...}
Handler_failed(e) == [status |-> "failed", error |-> e]

\* handler.py lines 203-324, inside the temp directory: the two decoded
\* files, samples.txt and the config are written, the script is looked
\* for, the inference subprocess runs, the first *.mp4 is read and encoded.
\* An exception of a step outside the inner try reaches the outer except.
Handler_in_temp_dir(job_input, p) ==
    IF b64decode_raises(job_input.reference_image)
    THEN Handler_except("Incorrect padding")
    ELSE IF p.disk = "full"
    THEN Handler_except("[Errno 28] No space left on device")
    ELSE IF b64decode_raises(job_input.audio)
    THEN Handler_except("Incorrect padding")
    ELSE IF ~p.script
    THEN Handler_failed("Inference script not found")
    ELSE IF p.inference = "exit 1"
    THEN Handler_failed("Inference failed with code 1")
    ELSE IF p.inference = "TimeoutExpired"
    THEN Handler_failed("Inference timed out after 10 minutes")
    ELSE IF p.inference = "OSError"
    THEN Handler_failed("Failed to run inference: [Errno 12] Cannot allocate memory")
    ELSE IF p.output # "out.mp4"
    THEN Handler_failed("No video file found in output directory")
    ELSE [status |-> "success", video |-> b64encode("mp4"), size_bytes |-> 3]

\* handler.py generate_video(job), lines 176-331
Handler_generate_video(job, p) ==
    IF "input" \notin DOMAIN job
    THEN Handler_except("'input'")
    ELSE LET job_input == job.input
         IN  IF "reference_image" \notin DOMAIN job_input
             THEN Handler_failed("Missing 'reference_image' in input")
             ELSE IF "audio" \notin DOMAIN job_input
             THEN Handler_failed("Missing 'audio' in input")
             ELSE IF ~p.models
             THEN Handler_failed("Models not found")
             ELSE IF ~p.repo
             THEN Handler_failed("OmniAvatar repo not found")
             ELSE Handler_in_temp_dir(job_input, p)

InitPayload ==
    /\ PollIdle
    /\ VastIdle
    /\ TaskIdle
    /\ CallerIdle
    /\ request = NoRequest
    /\ validation = "-"
    /\ gen_args \in GenArgs
    /\ payload = NoPayload
    /\ handler_result = NoHandlerResult
    /\ pod = ReadyPod
    /\ StoreIdle

\* generate_video builds the payload and posts it to {base_url}/run
GPU_post_payload ==
    /\ payload = NoPayload
    /\ payload' = GPU_payload(gen_args)
    /\ UNCHANGED <<request, validation, gen_args, handler_result, pod, storeVars>>
    /\ UNCHANGED <<pollVars, vastVars, taskVars, callerVars>>

\* RunPod hands the job to the handler: job["input"] is the payload's input
Handler_run ==
    /\ payload # NoPayload
    /\ handler_result = NoHandlerResult
    /\ handler_result' = Handler_generate_video(payload, pod)
    /\ UNCHANGED <<request, validation, gen_args, payload, pod, storeVars>>
    /\ UNCHANGED <<pollVars, vastVars, taskVars, callerVars>>

NextPayload ==
    \/ GPU_post_payload
    \/ Handler_run

SpecPayload == InitPayload /\ [][NextPayload]_vars

\* C26: for every payload generate_video posts, the handler's validation of
\* the required inputs passes: it answers no "Missing ... in input" failure.
C26_PayloadPassesHandlerValidation ==
    handler_result # NoHandlerResult =>
        handler_result.error \notin
            {"Missing 'reference_image' in input", "Missing 'audio' in input"}

\* ------------------------------------------------------------------------
\* Claims about the statuses, the timeout and the waits of the poll loops
\* ------------------------------------------------------------------------
\* C27: an unrecognised remote status does not end the poll: the loop sleeps
\* the poll interval and checks again, and when every check answers an
\* unrecognised status the poll ends in TimeoutError once the timeout has
\* elapsed.
C27_UnknownStatusIsNonTerminal ==
    /\ (ppc = "poll" /\ onlyUnknown) => Elapsed = nChecks * PollSleep
    /\ (ppc = "done" /\ nChecks > 0 /\ onlyUnknown) =>
          /\ outcome.kind = "TimeoutError"
          /\ Elapsed = nChecks * PollSleep
          /\ Elapsed >= TimeoutOf(backend)

C27_Witness ==
    /\ ppc = "done"
    /\ onlyUnknown
    /\ nChecks = 150
    /\ outcome.kind = "TimeoutError"

\* C28: the timeout runs from the start of polling and is tested before each
\* status check: no check is issued once it has elapsed, TimeoutError is
\* raised only then, and its message names the job id the POST returned.
C28_TimeoutBeforeEachCheck ==
    /\ [][(ppc = "call" /\ ppc' = "poll") => start_time' = clock']_vars
    /\ [][nChecks' > nChecks => Elapsed < TimeoutOf(backend)]_vars
    /\ [](outcome.kind = "TimeoutError" =>
            /\ Elapsed >= TimeoutOf(backend)
            /\ HasJobId(postResp)
            /\ outcome.msg \in
                 {"Job " \o postResp.status \o " timed out after 300s",
                  "Prediction " \o postResp.status \o " timed out after 300s"})

C28_Witness ==
    /\ ppc = "done"
    /\ outcome = Raised("TimeoutError", "Job job-1 timed out after 300s")
    /\ Elapsed = GPU_timeout
    /\ nChecks = 150

\* C29: a status check that raised a network-level error never ends the
\* poll, and the loop waits longer after it than after a status that says
\* the job is still running.
C29_ErrorBackoffLonger ==
    [][(ppc = "poll" /\ nChecks' = nChecks + 1) =>
          /\ onlyNetErr' => (ppc' = "poll" /\ clock' - clock > PollSleep)
          /\ inProgPrefix' = inProgPrefix + 1 =>
                (ppc' = "poll" /\ clock' - clock = PollSleep)]_vars

C29_Witness ==
    /\ ppc = "poll"
    /\ onlyNetErr
    /\ nChecks = 3
    /\ Elapsed = 3 * ErrorSleep

\* C30: a status answer by which the provider reports the job failed (FAILED,
\* COMPLETED with output status "failed", Replicate's failed) ends the poll
\* on that check with a ValueError whose message holds the remote error text.
C30_ProviderFailureIsTerminal ==
    sawFailure =>
        /\ ppc = "done"
        /\ outcome.kind = "ValueError"
        /\ ~IsRequestException(finalResp)
        /\ finalResp.status \in {"FAILED", "COMPLETED", "failed"}
        /\ LET e == IF finalResp.status = "COMPLETED"
                    THEN finalResp.output.error ELSE finalResp.error
           IN  e \notin {"absent", "null"} =>
                   outcome.msg \in {"Job failed: " \o e, "Generation failed: " \o e,
                                    "Prediction failed: " \o e}

C30_Witness ==
    /\ ppc = "done"
    /\ sawFailure
    /\ finalResp.status = "COMPLETED"
    /\ nChecks = 2
    /\ outcome = Raised("ValueError", "Generation failed: CUDA out of memory")

\* ------------------------------------------------------------------------
\* Claims about the offer search and the readiness wait of Vast.ai
\* ------------------------------------------------------------------------
\* C31: the offer create_instance is called with has the lowest dph_total of
\* the offers the search answered, and when no search gave an offer
\* generate_video fails without creating or destroying an instance.
C31_CheapestOfferRented ==
    backend = "vastai" =>
        /\ nCreates > 0 =>
              /\ \E i \in 1..Len(listed) : rented = listed[i]
              /\ \A i \in 1..Len(listed) : rented <= listed[i]
        /\ (ppc \in {"finally", "done"} /\ offers = <<>>
                /\ VastAI_is_configured(credentials)) =>
              /\ (ppc = "finally" => pending_exc.kind = "ValueError")
              /\ (ppc = "done" => outcome.kind = "ValueError")
              /\ nCreates = 0
              /\ destroyed = <<>>
              /\ remote_instances = {}

C31_Witness ==
    /\ backend = "vastai"
    /\ ppc = "done"
    /\ nCreates = 1
    /\ listed = <<2, 1>>
    /\ rented = 1

\* C32: the generation step is reached only after an answer with status
\* running, an ssh host and an ssh port; otherwise the wait ends after the
\* startup budget with the startup TimeoutError.
C32_ReadyBeforeGeneration ==
    (backend = "vastai" /\ ppc = "generate") =>
        /\ ssh_host # "none"
        /\ ssh_port # "none"

\* ------------------------------------------------------------------------
\* Claims about a run without a record, interleaved runs, the order of the
\* first commit and the work directory
\* ------------------------------------------------------------------------
\* C33: a run for a video_id without a record raises the "Video not found"
\* ValueError to the task queue, and the table is as it was.
C33_NotFoundReachesQueue ==
    [][\A w \in Workers :
          (tpc[w] = "idle" /\ cause'[w] = "Video not found") =>
              /\ db[video_id'[w]].status = "absent"
              /\ tpc'[w] = "raised"
              /\ exc'[w] = "Video not found"
              /\ db' = db]_vars

\* A step of a run of worker w that was already under way
RunStep(w) ==
    /\ tpc[w] \in {"download", "generate", "complete", "raised"}
    /\ tpc'[w] # tpc[w]
    /\ ~crash(w)

\* C34: with two runs of one video_id under way, once the record is
\* completed no later step of a run or of its failure hook changes the
\* status, and processing_time_seconds stays the difference of the stored
\* timestamps.
C34_CompletedSurvivesOtherRun ==
    [][\A w \in Workers :
          (RunStep(w) /\ db[video_id[w]].status = "completed") =>
              LET after == db'[video_id[w]] IN
              /\ after.status = "completed"
              /\ after.processing_time_seconds =
                     after.processing_completed_at - after.processing_started_at]_vars

\* C35: a run that is at its downloads, its generation call or its upload
\* has committed status processing with processing_started_at: the record
\* of a run doing backend work never reads pending and has its start time.
C35_ProcessingCommittedFirst ==
    \A w \in Workers :
        tpc[w] \in {"download", "generate", "complete"} =>
            /\ db[video_id[w]].status \notin {"pending", "absent"}
            /\ db[video_id[w]].processing_started_at # Null

C35_Witness ==
    /\ tpc["w1"] = "complete"
    /\ tpc["w2"] = "download"
    /\ video_id["w1"] = video_id["w2"]
    /\ db[1].status = "processing"

\* C40: when a run has ended, by its return or by an exception, its work
\* directory does not exist any more.
C40_WorkDirRemoved ==
    \A w \in Workers : tpc[w] \in {"raised", "idle"} => work_dir[w] = "none"

\* ------------------------------------------------------------------------
\* The RunPod handler called with any job: deployment/runpod/handler.py
\* ------------------------------------------------------------------------
\* Texts found in the base64 fields of a job: an encoded image, a text that
\* does not decode
B64Texts == {"aW1n", "a"}

\* job["input"]: each of reference_image and audio present or not
JobInputs == UNION {[D -> B64Texts] : D \in SUBSET {"reference_image", "audio"}}

\* The job RunPod hands to the handler, with "input" or without
Jobs == {[id |-> "job-1"]} \cup {[id |-> "job-1", input |-> i] : i \in JobInputs}

InitHandler ==
    /\ PollIdle
    /\ VastIdle
    /\ TaskIdle
    /\ CallerIdle
    /\ request = NoRequest
    /\ validation = "-"
    /\ gen_args = NoArgs
    /\ payload \in Jobs
    /\ handler_result = NoHandlerResult
    /\ pod \in Pods
    /\ StoreIdle

NextHandler == Handler_run

SpecHandler == InitHandler /\ [][NextHandler]_vars

\* The job lacks a required input or the pod lacks something the handler
\* needs to produce a video
HandlerCannotSucceed ==
    \/ "input" \notin DOMAIN payload
    \/ {"reference_image", "audio"} \ DOMAIN payload.input # {}
    \/ ~pod.models \/ ~pod.repo \/ ~pod.script
    \/ pod.inference # "exit 0"
    \/ pod.output # "out.mp4"

\* C36: generate_video of the handler never raises: it returns status
\* failed with an error text for every failure, and status success only
\* with a video payload, after inference exited with code 0 and an .mp4
\* was found.
C36_HandlerNeverRaises ==
    handler_result # NoHandlerResult =>
        /\ handler_result.status \in {"failed", "success"}
        /\ HandlerCannotSucceed => handler_result.status = "failed"
        /\ handler_result.status = "failed" =>
              "error" \in DOMAIN handler_result /\ handler_result.error # ""
        /\ handler_result.status = "success" =>
              /\ "video" \in DOMAIN handler_result
              /\ pod.inference = "exit 0"
              /\ pod.output = "out.mp4"

C36_Witness ==
    /\ handler_result # NoHandlerResult
    /\ "input" \in DOMAIN payload
    /\ DOMAIN payload.input = {"reference_image", "audio"}
    /\ payload.input.audio = "a"
    /\ pod = ReadyPod
    /\ handler_result.status = "failed"

\* ------------------------------------------------------------------------
\* Storage keys and URLs: services/storage.py upload_file and the key
\* extraction of worker/tasks.py
\* ------------------------------------------------------------------------
\* get_storage_service(): S3 when both AWS credentials are set
get_storage_service(cfg) ==
    IF cfg.aws THEN "S3StorageService" ELSE "LocalStorageService"

\* S3StorageService.upload_file: the URL returned for key
S3_upload_file(cfg, key) ==
    IF cfg.public_endpoint # <<>>
    THEN cfg.public_endpoint \o <<"/">> \o S3_BUCKET \o <<"/">> \o key
    ELSE <<"h">> \o S3_BUCKET \o <<".", "/">> \o key

\* LocalStorageService.upload_file: f"/local_storage/{key}"
Local_upload_url(key) == <<"/", "l", "/">> \o key

\* The first index at which sep occurs in s, 0 when it does not
Find(s, sep) ==
    LET hits == {i \in 1..(Len(s) - Len(sep) + 1) : SubSeq(s, i, i + Len(sep) - 1) = sep}
    IN  IF hits = {} THEN 0 ELSE CHOOSE i \in hits : \A j \in hits : i <= j

\* str.split(sep)[-1]: what follows the last occurrence of sep, the whole
\* text when sep does not occur
RECURSIVE SplitLast(_, _)
SplitLast(s, sep) ==
    LET i == Find(s, sep)
    IN  IF i = 0 THEN s ELSE SplitLast(SubSeq(s, i + Len(sep), Len(s)), sep)

\* tasks.py lines 88-89: url.split(f"{storage_service.bucket}/")[-1];
\* LocalStorageService has no attribute bucket
extract_key(cfg, url) ==
    IF get_storage_service(cfg) = "LocalStorageService"
    THEN [raised |-> "AttributeError", key |-> <<>>]
    ELSE [raised |-> "none", key |-> SplitLast(url, S3_BUCKET \o <<"/">>)]

InitKeys ==
    /\ PollIdle
    /\ VastIdle
    /\ TaskIdle
    /\ CallerIdle
    /\ request = NoRequest
    /\ validation = "-"
    /\ gen_args = NoArgs
    /\ payload = NoPayload
    /\ handler_result = NoHandlerResult
    /\ pod = ReadyPod
    /\ storage_cfg \in StorageSettings
    /\ up_key \in StorageKeys
    /\ up_url = <<>>
    /\ ref_key = [raised |-> "-", key |-> <<>>]
    /\ storage_dir = EmptyDir
    /\ last_op = NoOp
    /\ uploaded = [k \in LocalKeys |-> "none"]
    /\ tts_call = NoTTSCall
    /\ tts_result = "-"

apiFrame == <<request, validation, gen_args, payload, handler_result, pod>>

\* storage_service.upload_file(data, up_key) returns the URL the API layer
\* stores in the record
Storage_upload_file ==
    /\ up_url = <<>>
    /\ up_url' = IF get_storage_service(storage_cfg) = "S3StorageService"
                 THEN S3_upload_file(storage_cfg, up_key)
                 ELSE Local_upload_url(up_key)
    /\ UNCHANGED <<storage_cfg, up_key, ref_key, storage_dir, last_op, uploaded,
                   tts_call, tts_result>>
    /\ UNCHANGED <<pollVars, vastVars, taskVars, callerVars, apiFrame>>

\* generate_video_task reads the key out of the stored URL
Task_extract_key ==
    /\ up_url # <<>>
    /\ ref_key.raised = "-"
    /\ ref_key' = extract_key(storage_cfg, up_url)
    /\ UNCHANGED <<storage_cfg, up_key, up_url, storage_dir, last_op, uploaded,
                   tts_call, tts_result>>
    /\ UNCHANGED <<pollVars, vastVars, taskVars, callerVars, apiFrame>>

NextKeys ==
    \/ Storage_upload_file
    \/ Task_extract_key

SpecKeys == InitKeys /\ [][NextKeys]_vars

\* C37: the key the task extracts from the stored URL is the key the file
\* was uploaded under, for every key and every URL shape of upload_file.
C37_ExtractedKeyIsUploadKey ==
    ref_key.raised # "-" =>
        /\ ref_key.raised = "none"
        /\ ref_key.key = up_key

\* ------------------------------------------------------------------------
\* LocalStorageService: upload_file, download_file, delete_file
\* ------------------------------------------------------------------------
\* The directory a path lies in is a file (mkdir raises), or the path is a
\* directory (open raises)
Local_upload_raises(d, p) ==
    \/ d[p] = "dir"
    \/ Len(p) > 1 /\ d[<<p[1]>>] \in FileData

\* upload_file lines 25-30: the parents are made, the file is written
Local_upload_file(d, p, data) ==
    [q \in LocalPaths |->
        IF q = p THEN data
        ELSE IF Len(p) > 1 /\ q = <<p[1]>> THEN "dir"
        ELSE d[q]]

\* download_file: the bytes of the file, or open raises
Local_download_file(d, key) ==
    IF d[PathOf(key)] \in FileData THEN d[PathOf(key)] ELSE "raised"

\* delete_file lines 57-65: True unless unlink raises
Local_delete_result(d, p) == IF d[p] = "dir" THEN "False" ELSE "True"

Local_delete_file(d, p) ==
    IF d[p] \in FileData THEN [d EXCEPT ![p] = "absent"] ELSE d

storeFrame == <<storage_cfg, up_key, up_url, ref_key, tts_call, tts_result>>

LocalStorage_upload_file ==
    /\ \E key \in LocalKeys, data \in FileData :
         LET p == PathOf(key) IN
         IF Local_upload_raises(storage_dir, p)
         THEN /\ last_op' = [op |-> "upload", key |-> key, data |-> data,
                             result |-> "raised"]
              /\ UNCHANGED <<storage_dir, uploaded>>
         ELSE /\ last_op' = [op |-> "upload", key |-> key, data |-> data,
                             result |-> "url"]
              /\ storage_dir' = Local_upload_file(storage_dir, p, data)
              /\ uploaded' = [uploaded EXCEPT ![key] = data]
    /\ UNCHANGED storeFrame
    /\ UNCHANGED <<pollVars, vastVars, taskVars, callerVars, apiFrame>>

LocalStorage_download_file ==
    /\ \E key \in LocalKeys :
         last_op' = [op |-> "download", key |-> key, data |-> "-",
                     result |-> Local_download_file(storage_dir, key)]
    /\ UNCHANGED <<storage_dir, uploaded>>
    /\ UNCHANGED storeFrame
    /\ UNCHANGED <<pollVars, vastVars, taskVars, callerVars, apiFrame>>

LocalStorage_delete_file ==
    /\ \E key \in LocalKeys :
         /\ last_op' = [op |-> "delete", key |-> key, data |-> "-",
                        result |-> Local_delete_result(storage_dir, PathOf(key))]
         /\ storage_dir' = Local_delete_file(storage_dir, PathOf(key))
         /\ uploaded' = [uploaded EXCEPT ![key] = "none"]
    /\ UNCHANGED storeFrame
    /\ UNCHANGED <<pollVars, vastVars, taskVars, callerVars, apiFrame>>

InitStorage ==
    /\ PollIdle
    /\ VastIdle
    /\ TaskIdle
    /\ CallerIdle
    /\ ApiIdle

NextStorage ==
    \/ LocalStorage_upload_file
    \/ LocalStorage_download_file
    \/ LocalStorage_delete_file

SpecStorage == InitStorage /\ [][NextStorage]_vars

\* C38: after upload(data, key) succeeded download(key) returns data until
\* that key is uploaded again or deleted; delete(key) returns true and
\* the key is absent afterwards, whether it was stored or not.
C38_StorageRoundTrip ==
    /\ \A k \in LocalKeys :
          uploaded[k] # "none" => Local_download_file(storage_dir, k) = uploaded[k]
    /\ last_op.op = "delete" =>
          /\ last_op.result = "True"
          /\ Local_download_file(storage_dir, last_op.key) = "raised"

\* ------------------------------------------------------------------------
\* TTSService.generate_audio: services/tts.py
\* ------------------------------------------------------------------------
\* Variant: the except clause of generate_audio raises again
TTS_except_Raise(e) == "raised"

\* tts.py lines 51-56: the exception is logged, the mock audio is returned
TTS_except(e) == "mock audio"

\* _generate_openai_tts / _generate_elevenlabs_tts: response.content, or
\* the exception of the API call, raised again
TTS_provider_call(c) ==
    IF c.api = "content" THEN "provider audio" ELSE TTS_except(c.api)

\* generate_audio(text, voice_id, provider), lines 42-56
generate_audio(c) ==
    IF c.provider = "openai" /\ c.OPENAI_API_KEY = "set"
    THEN TTS_provider_call(c)
    ELSE IF c.provider = "elevenlabs" /\ c.ELEVENLABS_API_KEY = "set"
    THEN TTS_provider_call(c)
    ELSE "mock audio"

InitTTS ==
    /\ PollIdle
    /\ VastIdle
    /\ TaskIdle
    /\ CallerIdle
    /\ request = NoRequest
    /\ validation = "-"
    /\ gen_args = NoArgs
    /\ payload = NoPayload
    /\ handler_result = NoHandlerResult
    /\ pod = ReadyPod
    /\ storage_cfg = [aws |-> FALSE, public_endpoint |-> <<>>]
    /\ up_key = <<>>
    /\ up_url = <<>>
    /\ ref_key = [raised |-> "-", key |-> <<>>]
    /\ storage_dir = EmptyDir
    /\ last_op = NoOp
    /\ uploaded = [k \in LocalKeys |-> "none"]
    /\ tts_call \in TTSCalls
    /\ tts_result = "-"

TTS_generate_audio ==
    /\ tts_result = "-"
    /\ tts_result' = generate_audio(tts_call)
    /\ UNCHANGED <<storage_cfg, up_key, up_url, ref_key, storage_dir, last_op,
                   uploaded, tts_call>>
    /\ UNCHANGED <<pollVars, vastVars, taskVars, callerVars, apiFrame>>

NextTTS == TTS_generate_audio

SpecTTS == InitTTS /\ [][NextTTS]_vars

\* The named provider is known, configured, and its call gives content
TTS_provider_works ==
    /\ \/ tts_call.provider = "openai" /\ tts_call.OPENAI_API_KEY = "set"
       \/ tts_call.provider = "elevenlabs" /\ tts_call.ELEVENLABS_API_KEY = "set"
    /\ tts_call.api = "content"

\* C39: generate_audio returns audio bytes for every provider name and
\* every provider outcome; with an unknown or unconfigured provider, or a
\* provider call that raises, it returns the mock audio and does not raise.
C39_AlwaysAudio ==
    tts_result # "-" =>
        /\ tts_result \in {"provider audio", "mock audio"}
        /\ ~TTS_provider_works => tts_result = "mock audio"

C39_Witness ==
    /\ tts_call.provider = "elevenlabs"
    /\ tts_call.ELEVENLABS_API_KEY = "set"
    /\ tts_call.api = "HTTPError"
    /\ tts_result = "mock audio"

====
